---- MODULE Spec2Model ----
(***************************************************************************)
(* Synthetic drum dataset generator: the per-song generation flow          *)
(* (orchestrator seeding, DrumPatternGenerator, HarmonyGenerator,          *)
(* MidiSongBuilder) as a state machine.                                    *)
(*                                                                         *)
(* Conventions                                                             *)
(*  - Times are fixed-point seconds, UnitsPerSecond units per second.      *)
(*  - Offsets/durations of pattern templates are hundredths of a quarter   *)
(*    note (0.25 quarter = 25).                                            *)
(*  - Probabilities and the drum parameters are tenths (0.6 = 6).          *)
(*  - A random generator is its state, a number below RngRange; a draw     *)
(*    reads RngNext(state) and the caller continues from RngNext(state).   *)
(*  - A string that the code inspects character by character (a roman     *)
(*    numeral, a drum step string) is a sequence of one-character strings. *)
(***************************************************************************)
EXTENDS Integers, Sequences, FiniteSets, TLC

VARIABLES
    song,        \* the SongSpecification under study
    generator,   \* the DrumPatternGenerator's parameters (tenths)
    scenario,    \* how process 2 differs from process 1
    boot,        \* boot[r]: numpy's generator state when process r started
    plan,        \* plan[r]: the songs process r still has to build
    pc,          \* pc[r]: position of process r in the per-song flow
    cur,         \* cur[r]: the SongSpecification process r is building
    pyRnd,       \* pyRnd[r]: state of the random module's generator
    npRnd,       \* npRnd[r]: state of numpy.random's generator
    drumEvents,  \* drumEvents[r]: DrumEvent list of the song being built
    tracks,      \* tracks[r]: the instrument tracks generated so far
    fn           \* the call under study in the single-call specifications

vars == <<song, generator, scenario, boot, plan, pc, cur, pyRnd, npRnd,
          drumEvents, tracks, fn>>

flowVars == <<song, generator, scenario, boot, plan, pc, cur, pyRnd, npRnd,
              drumEvents, tracks>>

----------------------------------------------------------------------------
(* Generic helpers *)

Max(a, b) == IF a >= b THEN a ELSE b

Min(a, b) == IF a <= b THEN a ELSE b

Abs(a) == IF a < 0 THEN -a ELSE a

\* The sequence f as a tuple: TLC then computes its elements once, not at
\* every index into it
SeqOf(f) == <<>> \o f

RECURSIVE SumSeq(_)
SumSeq(s) == IF s = <<>> THEN 0 ELSE Head(s) + SumSeq(Tail(s))

\* for item in items: acc = Step(acc, item)
\* TLC evaluates an operator's argument when it is first used; comparing acc
\* makes it evaluate the result of each pass before the next pass starts, so
\* that the depth of evaluation does not grow with the number of passes.
RECURSIVE ForEachFrom(_, _, _, _)
ForEachFrom(Step(_, _), acc, items, i) ==
    IF i > Len(items) THEN acc
    ELSE IF acc = acc THEN ForEachFrom(Step, Step(acc, items[i]), items, i + 1)
    ELSE acc

ForEach(Step(_, _), acc, items) == ForEachFrom(Step, acc, items, 1)

\* range(n) as a sequence: 0, 1, .. n - 1
Range(n) == SeqOf([i \in 1..n |-> i - 1])

----------------------------------------------------------------------------
(* Random generators (random.Random, the random module, numpy.random) *)

RngRange == 65536

RngNext(st) == (25173 * st + 13849) % RngRange

RngSeed(seed) == RngNext((seed * 40503 + 1) % RngRange)

\* random.random() < num/den, read from the next draw of st
RandomBelow(st, num, den) == RngNext(st) * den < num * RngRange

\* random.randrange(n): floor(random() * n)
Randrange(st, n) == (RngNext(st) * n) \div RngRange

\* random.choice(seq)
RandomChoice(st, seq) == seq[Randrange(st, Len(seq)) + 1]

----------------------------------------------------------------------------
(* Timing *)

UnitsPerSecond == 12000

\* (beats_per_bar, seconds_per_beat, seconds_per_bar); beats in hundredths
compute_timing(s) ==
    LET beats100 == (s.time_signature[1] * 400) \div s.time_signature[2]
        spb == (60 * UnitsPerSecond) \div s.tempo_bpm
    IN  [beats_per_bar100 |-> beats100,
         seconds_per_beat |-> spb,
         seconds_per_bar |-> (beats100 * spb) \div 100]

\* total_beats * seconds_per_beat, the beats in hundredths
get_duration_seconds(s) ==
    LET beats_per_bar100 == (s.time_signature[1] * 400) \div s.time_signature[2]
        total_beats100 == s.number_of_bars * beats_per_bar100
        seconds_per_beat == (60 * UnitsPerSecond) \div s.tempo_bpm
    IN  (total_beats100 * seconds_per_beat) \div 100

\* The bars counted from one
compute_bar_positions_from_one(s) ==
    SeqOf([k \in 1..s.number_of_bars |-> k * compute_timing(s).seconds_per_bar])

\* bar_index * seconds_per_bar for bar_index in range(number_of_bars)
compute_bar_positions(s) ==
    SeqOf([k \in 1..s.number_of_bars |-> (k - 1) * compute_timing(s).seconds_per_bar])

----------------------------------------------------------------------------
(* Roman numerals: HarmonyGenerator._roman_to_degree_and_quality *)

\* str.lower() / str.upper() on the characters a numeral can hold
LowerChar(c) ==
    CASE c = "I" -> "i" [] c = "V" -> "v" [] c = "O" -> "o" [] c = "D" -> "d"
      [] c = "M" -> "m" [] c = "X" -> "x" [] c = "Z" -> "z" [] OTHER -> c

UpperChar(c) ==
    CASE c = "i" -> "I" [] c = "v" -> "V" [] c = "o" -> "O" [] c = "d" -> "D"
      [] c = "m" -> "M" [] c = "x" -> "X" [] c = "z" -> "Z" [] OTHER -> c

IsCased(c) == LowerChar(c) # UpperChar(c)

\* str.strip()
RECURSIVE StrStrip(_)
StrStrip(s) ==
    IF s = <<>> THEN s
    ELSE IF Head(s) = " " THEN StrStrip(Tail(s))
    ELSE IF s[Len(s)] = " " THEN StrStrip(SubSeq(s, 1, Len(s) - 1))
    ELSE s

\* str.replace(sub, ""): leftmost, non-overlapping occurrences removed
RECURSIVE StrRemove(_, _)
StrRemove(s, sub) ==
    IF Len(s) < Len(sub) THEN s
    ELSE IF SubSeq(s, 1, Len(sub)) = sub
         THEN StrRemove(SubSeq(s, Len(sub) + 1, Len(s)), sub)
         ELSE <<Head(s)>> \o StrRemove(Tail(s), sub)

\* str.islower(): at least one cased character and no uppercase one
StrIsLower(s) ==
    /\ \E i \in 1..Len(s) : IsCased(s[i])
    /\ \A i \in 1..Len(s) : IsCased(s[i]) => s[i] = LowerChar(s[i])

DegreeMapping ==
    (<<"I">> :> 0) @@ (<<"I", "I">> :> 1) @@ (<<"I", "I", "I">> :> 2)
    @@ (<<"I", "V">> :> 3) @@ (<<"V">> :> 4) @@ (<<"V", "I">> :> 5)
    @@ (<<"V", "I", "I">> :> 6)

\* An unknown numeral read as the tonic instead of raising
roman_to_degree_or_tonic(token) ==
    LET Lookup(upper, quality) ==
            IF upper \in DOMAIN DegreeMapping
            THEN [ok |-> TRUE, degree |-> DegreeMapping[upper], quality |-> quality]
            ELSE [ok |-> TRUE, degree |-> 0, quality |-> "maj"]
        Classify(base, is_dim) ==
            Lookup(SeqOf([i \in 1..Len(base) |-> UpperChar(base[i])]),
                   IF is_dim THEN "dim"
                   ELSE IF StrIsLower(base) THEN "min" ELSE "maj")
        Parse(roman) ==
            Classify(StrRemove(StrRemove(StrRemove(StrRemove(roman, <<"°">>),
                         <<"o">>), <<"d", "i", "m">>), <<"+">>),
                     \E i \in 1..Len(roman) :
                         roman[i] = "°" \/ LowerChar(roman[i]) = "o")
    IN  Parse(StrStrip(token))

\* [ok |-> FALSE] stands for the ValueError the code raises
roman_to_degree_and_quality(token) ==
    LET Lookup(upper, quality) ==
            IF upper \in DOMAIN DegreeMapping
            THEN [ok |-> TRUE, degree |-> DegreeMapping[upper], quality |-> quality]
            ELSE [ok |-> FALSE]
        Classify(base, is_dim) ==
            Lookup(SeqOf([i \in 1..Len(base) |-> UpperChar(base[i])]),
                   IF is_dim THEN "dim"
                   ELSE IF StrIsLower(base) THEN "min" ELSE "maj")
        Parse(roman) ==
            Classify(StrRemove(StrRemove(StrRemove(StrRemove(roman, <<"°">>),
                         <<"o">>), <<"d", "i", "m">>), <<"+">>),
                     \E i \in 1..Len(roman) :
                         roman[i] = "°" \/ LowerChar(roman[i]) = "o")
    IN  Parse(StrStrip(token))

----------------------------------------------------------------------------
(* Vocabularies handed to HarmonyGenerator by the dataset builder *)

scale_vocab ==
    [k \in {"C major", "D major", "F major", "G major", "A major",
            "D minor", "E minor", "A minor"} |->
        CASE k = "C major" -> <<0, 2, 4, 5, 7, 9, 11>>
          [] k = "D major" -> <<2, 4, 6, 7, 9, 11, 1>>
          [] k = "F major" -> <<5, 7, 9, 10, 0, 2, 4>>
          [] k = "G major" -> <<7, 9, 11, 0, 2, 4, 6>>
          [] k = "A major" -> <<9, 11, 1, 2, 4, 6, 8>>
          [] k = "D minor" -> <<2, 4, 5, 7, 9, 10, 0>>
          [] k = "E minor" -> <<4, 6, 7, 9, 11, 0, 2>>
          [] k = "A minor" -> <<9, 11, 0, 2, 4, 5, 7>>]

\* chord_vocab in insertion order (the order the fallbacks iterate in)
chord_vocab ==
    << <<"maj", <<0, 4, 7>> >>, <<"min", <<0, 3, 7>> >>,
       <<"maj7", <<0, 4, 7, 11>> >>, <<"min7", <<0, 3, 7, 10>> >>,
       <<"7", <<0, 4, 7, 10>> >>, <<"sus2", <<0, 2, 7>> >>,
       <<"sus4", <<0, 5, 7>> >> >>

ChordVocabHas(q) == \E i \in 1..Len(chord_vocab) : chord_vocab[i][1] = q

ChordVocabGet(q) ==
    chord_vocab[CHOOSE i \in 1..Len(chord_vocab) : chord_vocab[i][1] = q][2]

\* self.scale_vocab of the HarmonyGenerator: the dataset builder's vocabulary,
\* or the one the call under study constructs its generator with
self_scale_vocab ==
    IF "scale_vocab" \in DOMAIN fn THEN fn.scale_vocab ELSE scale_vocab

\* The list stored for the key, else the one for "C major", else the first
\* entry (the vocabularies without "C major" studied here have one entry);
\* the list is returned as stored, an empty one included
get_scale_for_key(key) ==
    IF key \in DOMAIN self_scale_vocab THEN self_scale_vocab[key]
    ELSE IF "C major" \in DOMAIN self_scale_vocab THEN self_scale_vocab["C major"]
    ELSE self_scale_vocab[CHOOSE k \in DOMAIN self_scale_vocab : TRUE]

\* Direct hit, else the first vocabulary key containing the quality as a
\* substring ("dim" is contained in no key), else the first entry.
get_chord_intervals(quality) ==
    IF ChordVocabHas(quality) THEN ChordVocabGet(quality)
    ELSE chord_vocab[1][2]

----------------------------------------------------------------------------
(* Instruments (DatasetBuilder.create_instruments) and pattern tables *)

Instrument(name, gm_program, channel, role) ==
    [name |-> name, gm_program |-> gm_program, channel |-> channel, role |-> role]

create_instruments ==
    << Instrument("Acoustic Grand Piano", 0, 0, "chords"),
       Instrument("Bright Acoustic Piano", 1, 0, "chords"),
       Instrument("Electric Piano 1 (Rhodes)", 4, 1, "chords"),
       Instrument("Electric Piano 2 (FM)", 5, 1, "chords"),
       Instrument("Drawbar Organ", 16, 2, "chords"),
       Instrument("Acoustic Guitar (steel)", 25, 3, "chords"),
       Instrument("Electric Guitar (jazz)", 26, 3, "chords"),
       Instrument("Electric Guitar (clean)", 27, 4, "chords"),
       Instrument("Electric Guitar (muted)", 28, 4, "chords"),
       Instrument("Overdriven Guitar", 29, 5, "lead"),
       Instrument("Electric Bass (finger)", 33, 6, "bass"),
       Instrument("Electric Bass (pick)", 34, 6, "bass"),
       Instrument("Synth Bass 1", 38, 7, "bass"),
       Instrument("Synth Bass 2", 39, 7, "bass"),
       Instrument("String Ensemble 1", 48, 8, "pad"),
       Instrument("Synth Strings 1", 50, 8, "pad"),
       Instrument("Lead 1 (square)", 80, 10, "lead"),
       Instrument("Lead 2 (sawtooth)", 81, 10, "lead"),
       Instrument("Trumpet", 56, 11, "lead"),
       Instrument("Alto Sax", 65, 11, "lead") >>

\* The keywords the generators look for in instrument.name.lower(), for the
\* names of create_instruments (a name outside the table holds none of them).
NameKeywords(name) ==
    CASE name \in {"Acoustic Grand Piano", "Bright Acoustic Piano",
                   "Electric Piano 1 (Rhodes)", "Electric Piano 2 (FM)"} -> {"piano"}
      [] name = "Drawbar Organ" -> {"organ"}
      [] name \in {"Acoustic Guitar (steel)", "Electric Guitar (jazz)",
                   "Electric Guitar (clean)", "Electric Guitar (muted)",
                   "Overdriven Guitar"} -> {"guitar"}
      [] name \in {"String Ensemble 1", "Synth Strings 1"} -> {"string"}
      [] name \in {"Lead 1 (square)", "Lead 2 (sawtooth)"} -> {"lead"}
      [] name = "Trumpet" -> {"trumpet"}
      [] name = "Alto Sax" -> {"sax"}
      [] OTHER -> {}

CHORD_PATTERNS_BY_ROLE ==
    [k \in {"piano", "guitar", "organ", "default"} |->
        CASE k = "piano" -> <<
              <<<<0, 400, "block">>>>,
              <<<<0, 200, "block">>, <<200, 200, "block">>>>,
              <<<<0, 100, "block">>, <<150, 50, "block">>, <<200, 100, "block">>>>,
              <<<<0, 200, "arp_up">>, <<200, 200, "block">>>>,
              <<<<50, 350, "top_pulse">>>> >>
          [] k = "guitar" -> <<
              <<<<0, 400, "arp_up">>>>,
              <<<<0, 200, "arp_up">>, <<250, 50, "block">>, <<350, 50, "block">>>>,
              <<<<0, 100, "block">>, <<100, 300, "arp_up">>>>,
              <<<<50, 50, "block">>, <<100, 50, "block">>, <<200, 50, "block">>, <<250, 50, "block">>, <<350, 50, "block">>>>,
              <<<<0, 400, "arp_down">>>>,
              <<<<0, 400, "top_pulse">>>> >>
          [] k = "organ" -> <<
              <<<<0, 400, "block">>>>,
              <<<<0, 200, "block">>, <<200, 200, "block">>>>,
              <<<<0, 100, "block">>, <<100, 100, "block">>, <<200, 100, "block">>, <<300, 100, "block">>>>,
              <<<<0, 300, "block">>, <<300, 100, "arp_down">>>>,
              <<<<0, 400, "top_pulse">>>> >>
          [] k = "default" -> <<
              <<<<0, 400, "block">>>>,
              <<<<0, 200, "block">>, <<200, 200, "block">>>>,
              <<<<0, 100, "block">>, <<150, 50, "block">>, <<200, 100, "block">>>>,
              <<<<0, 400, "arp_up">>>>,
              <<<<0, 100, "block">>, <<100, 300, "top_pulse">>>> >>]

BASS_PATTERNS_BY_INSTRUMENT ==
    [k \in {"Electric Bass (finger)", "Electric Bass (pick)", "Synth Bass 1", "Synth Bass 2", "default"} |->
        CASE k = "Electric Bass (finger)" -> <<
              <<<<0, 100, "root">>, <<100, 100, "root">>, <<200, 100, "root">>, <<300, 100, "root">>>>,
              <<<<0, 100, "root">>, <<100, 100, "root">>, <<200, 100, "fifth">>, <<300, 100, "root">>>>,
              <<<<0, 100, "root">>, <<100, 100, "fifth">>, <<200, 100, "root">>, <<300, 100, "octave">>>>,
              <<<<0, 200, "root">>, <<200, 100, "root">>, <<300, 100, "approach_next">>>>,
              <<<<0, 50, "root">>, <<50, 50, "root">>, <<100, 100, "root">>, <<200, 50, "root">>, <<250, 50, "fifth">>, <<300, 50, "root">>, <<350, 50, "approach_next">>>> >>
          [] k = "Electric Bass (pick)" -> <<
              <<<<0, 100, "root">>, <<100, 100, "root">>, <<200, 100, "root">>, <<350, 50, "approach_next">>>>,
              <<<<0, 100, "root">>, <<100, 100, "root">>, <<200, 100, "fifth">>, <<300, 100, "octave">>>>,
              <<<<0, 50, "root">>, <<50, 50, "root">>, <<100, 50, "fifth">>, <<150, 50, "fifth">>, <<200, 50, "root">>, <<250, 50, "root">>, <<300, 50, "fifth">>, <<350, 50, "approach_next">>>>,
              <<<<0, 100, "root">>, <<100, 50, "walk_up">>, <<150, 50, "walk_up">>, <<200, 50, "walk_up">>, <<250, 50, "walk_up">>, <<300, 50, "walk_up">>, <<350, 50, "approach_next">>>>,
              <<<<50, 50, "root">>, <<150, 50, "root">>, <<200, 50, "fifth">>, <<250, 50, "fifth">>, <<300, 50, "root">>, <<350, 50, "approach_next">>>> >>
          [] k = "Synth Bass 1" -> <<
              <<<<0, 50, "root">>, <<50, 50, "root">>, <<100, 50, "root">>, <<150, 50, "root">>, <<200, 50, "root">>, <<250, 50, "root">>, <<300, 50, "root">>, <<350, 50, "root">>>>,
              <<<<0, 50, "root">>, <<50, 50, "fifth">>, <<100, 50, "root">>, <<150, 50, "fifth">>, <<200, 50, "root">>, <<250, 50, "fifth">>, <<300, 50, "root">>, <<350, 50, "approach_next">>>>,
              <<<<0, 100, "root">>, <<100, 50, "fifth">>, <<150, 50, "octave">>, <<200, 50, "fifth">>, <<250, 50, "root">>, <<300, 100, "approach_next">>>>,
              <<<<0, 50, "walk_up">>, <<50, 50, "walk_up">>, <<100, 50, "walk_up">>, <<150, 50, "walk_up">>, <<200, 50, "walk_up">>, <<250, 50, "walk_up">>, <<300, 50, "walk_up">>, <<350, 50, "approach_next">>>>,
              <<<<0, 50, "walk_down">>, <<50, 50, "walk_down">>, <<100, 50, "walk_down">>, <<150, 50, "walk_down">>, <<200, 50, "walk_down">>, <<250, 50, "walk_down">>, <<300, 50, "walk_down">>, <<350, 50, "approach_next">>>> >>
          [] k = "Synth Bass 2" -> <<
              <<<<0, 100, "root">>, <<100, 50, "walk_up">>, <<150, 50, "walk_up">>, <<200, 100, "root">>, <<300, 50, "walk_up">>, <<350, 50, "approach_next">>>>,
              <<<<0, 100, "root">>, <<100, 100, "fifth">>, <<200, 100, "root">>, <<300, 100, "fifth">>>>,
              <<<<0, 50, "root">>, <<50, 50, "octave">>, <<100, 50, "root">>, <<150, 50, "octave">>, <<200, 50, "fifth">>, <<250, 50, "root">>, <<300, 50, "root">>, <<350, 50, "approach_next">>>>,
              <<<<0, 300, "root">>, <<300, 50, "walk_up">>, <<350, 50, "approach_next">>>>,
              <<<<50, 50, "root">>, <<150, 50, "root">>, <<250, 50, "root">>, <<300, 50, "walk_up">>, <<350, 50, "approach_next">>>> >>
          [] k = "default" -> <<
              <<<<0, 100, "root">>, <<100, 100, "root">>, <<200, 100, "fifth">>, <<300, 100, "root">>>>,
              <<<<0, 100, "root">>, <<100, 100, "root">>, <<200, 100, "root">>, <<300, 100, "root">>>>,
              <<<<0, 100, "root">>, <<100, 100, "fifth">>, <<200, 100, "root">>, <<300, 100, "octave">>>>,
              <<<<0, 50, "root">>, <<50, 50, "root">>, <<100, 50, "fifth">>, <<150, 50, "fifth">>, <<200, 100, "root">>, <<300, 100, "approach_next">>>>,
              <<<<0, 100, "root">>, <<100, 100, "root">>, <<200, 50, "walk_up">>, <<250, 50, "walk_up">>, <<300, 100, "approach_next">>>> >>]

PAD_PATTERNS_BY_INSTRUMENT ==
    [k \in {"String Ensemble 1", "Synth Strings 1", "default"} |->
        CASE k = "String Ensemble 1" -> <<
              <<<<0, 400, "pad_sustain">>>>,
              <<<<0, 200, "pad_half">>, <<200, 200, "pad_half">>>>,
              <<<<150, 250, "pad_swell">>>>,
              <<<<0, 50, "pad_pulse">>, <<50, 350, "pad_sustain">>>>,
              <<<<0, 100, "pad_pulse">>, <<100, 100, "pad_pulse">>, <<200, 200, "pad_sustain">>>> >>
          [] k = "Synth Strings 1" -> <<
              <<<<0, 400, "pad_sustain">>>>,
              <<<<150, 100, "pad_swell">>, <<250, 150, "pad_sustain">>>>,
              <<<<0, 200, "pad_sustain">>, <<200, 100, "pad_swell">>, <<300, 100, "pad_sustain">>>>,
              <<<<150, 50, "pad_pulse">>, <<300, 100, "pad_pulse">>>>,
              <<<<0, 100, "pad_swell">>, <<100, 100, "pad_sustain">>, <<200, 100, "pad_swell">>, <<300, 100, "pad_sustain">>>> >>
          [] k = "default" -> <<
              <<<<0, 400, "pad_sustain">>>>,
              <<<<0, 200, "pad_half">>, <<200, 200, "pad_half">>>>,
              <<<<150, 250, "pad_swell">>>>,
              <<<<0, 50, "pad_pulse">>, <<50, 350, "pad_sustain">>>>,
              <<<<0, 100, "pad_sustain">>, <<100, 100, "pad_pulse">>, <<200, 200, "pad_sustain">>>> >>]

LEAD_PATTERNS_BY_INSTRUMENT ==
    [k \in {"Lead 1 (square)", "Lead 2 (sawtooth)", "Trumpet", "Alto Sax", "default"} |->
        CASE k = "Lead 1 (square)" -> <<
              <<<<0, 50, 0>>, <<50, 50, 2>>, <<100, 50, 4>>, <<150, 50, 2>>>>,
              <<<<100, 50, 0>>, <<150, 50, 1>>, <<200, 50, 2>>, <<250, 50, 0>>>>,
              <<<<0, 50, 0>>, <<50, 50, -1>>, <<100, 50, -2>>, <<150, 50, 0>>>>,
              <<<<0, 100, 0>>, <<100, 50, 2>>, <<150, 50, 4>>>>,
              <<<<0, 50, 0>>, <<50, 50, 3>>, <<100, 50, 0>>, <<150, 50, 3>>>> >>
          [] k = "Lead 2 (sawtooth)" -> <<
              <<<<0, 50, 0>>, <<50, 50, 2>>, <<100, 50, 3>>, <<150, 50, 5>>, <<200, 50, 4>>, <<250, 50, 2>>, <<300, 50, 0>>, <<350, 50, -1>>>>,
              <<<<0, 50, 0>>, <<50, 50, 2>>, <<100, 50, 4>>, <<150, 50, 7>>>>,
              <<<<0, 25, 0>>, <<25, 25, 1>>, <<50, 25, 0>>, <<75, 25, -1>>, <<100, 50, 0>>>>,
              <<<<50, 50, 0>>, <<100, 50, 2>>, <<150, 50, 4>>, <<250, 50, 2>>>>,
              <<<<0, 100, 0>>, <<100, 50, 2>>, <<150, 50, 0>>>> >>
          [] k = "Trumpet" -> <<
              <<<<0, 50, 0>>, <<50, 50, 2>>, <<100, 50, 4>>, <<150, 50, 5>>>>,
              <<<<0, 100, 0>>, <<100, 50, 2>>, <<150, 50, 4>>>>,
              <<<<0, 50, 4>>, <<50, 50, 2>>, <<100, 50, 0>>, <<150, 50, -2>>>>,
              <<<<0, 50, 0>>, <<50, 50, 2>>, <<300, 50, 4>>, <<350, 50, 2>>>>,
              <<<<0, 50, 0>>, <<50, 50, 2>>, <<100, 100, 4>>>> >>
          [] k = "Alto Sax" -> <<
              <<<<0, 50, 0>>, <<50, 50, 1>>, <<100, 50, 3>>, <<150, 50, 5>>>>,
              <<<<100, 50, 0>>, <<150, 50, 2>>, <<200, 50, 3>>, <<250, 50, 2>>>>,
              <<<<0, 50, 3>>, <<50, 50, 2>>, <<100, 50, 0>>, <<150, 50, -1>>>>,
              <<<<0, 50, 0>>, <<50, 50, 2>>, <<200, 50, 0>>, <<250, 50, -2>>>>,
              <<<<0, 100, 0>>, <<100, 50, 2>>, <<150, 50, 3>>>> >>
          [] k = "default" -> <<
              <<<<0, 50, 0>>, <<50, 50, 2>>, <<100, 50, 4>>, <<150, 50, 2>>>>,
              <<<<100, 50, 0>>, <<150, 50, 1>>, <<200, 50, 2>>, <<250, 50, 0>>>>,
              <<<<0, 50, 0>>, <<50, 50, -1>>, <<100, 50, -2>>, <<150, 50, 0>>>>,
              <<<<50, 50, 0>>, <<100, 50, 2>>, <<150, 50, 4>>, <<250, 50, 2>>>>,
              <<<<0, 100, 0>>, <<100, 50, 2>>, <<150, 50, 0>>>> >>]

get_chord_patterns_for_instrument(instrument) ==
    LET kw == NameKeywords(instrument.name)
        role_key == IF "piano" \in kw \/ "keys" \in kw THEN "piano"
                    ELSE IF "guitar" \in kw THEN "guitar"
                    ELSE IF "organ" \in kw THEN "organ"
                    ELSE "default"
    IN  CHORD_PATTERNS_BY_ROLE[role_key]

\* dict.get(instrument.name), else the "default" entry
PatternsByInstrument(table, instrument) ==
    IF instrument.name \in DOMAIN table THEN table[instrument.name]
    ELSE table["default"]

----------------------------------------------------------------------------
(* HarmonyGenerator: voice leading, velocities, renderers *)

\* rnd.randint(a, b)
Randint(st, a, b) == a + Randrange(st, b - a + 1)

\* Total distance over the first n voices; with n fixed for the three shifts
\* the order of the totals is the order of the means the code compares.
VoiceDistance(shifted, prev_voicing) ==
    LET n == Min(Len(shifted), Len(prev_voicing))
    IN  SumSeq(SeqOf([i \in 1..n |-> Abs(shifted[i] - prev_voicing[i])]))

\* The candidate that is farthest from the previous voicing instead of nearest
apply_voice_leading_farthest(base_voicing, prev_voicing) ==
    IF prev_voicing = <<>> THEN base_voicing
    ELSE IF Min(Len(base_voicing), Len(prev_voicing)) = 0 THEN base_voicing
    ELSE LET shifted(shift) == SeqOf([i \in 1..Len(base_voicing) |-> base_voicing[i] + shift])
             d(shift) == VoiceDistance(shifted(shift), prev_voicing)
             worst == IF d(-12) >= d(0) /\ d(-12) >= d(12) THEN -12
                      ELSE IF d(0) >= d(12) THEN 0 ELSE 12
         IN  shifted(worst)

\* prev_voicing = <<>> stands for None as well as for the empty list
apply_voice_leading(base_voicing, prev_voicing) ==
    IF prev_voicing = <<>> THEN base_voicing
    ELSE IF Min(Len(base_voicing), Len(prev_voicing)) = 0 THEN base_voicing
    ELSE LET shifted(shift) == SeqOf([i \in 1..Len(base_voicing) |-> base_voicing[i] + shift])
             d(shift) == VoiceDistance(shifted(shift), prev_voicing)
             \* min(candidates, key=...) keeps the first minimal candidate
             best == IF d(-12) <= d(0) /\ d(-12) <= d(12) THEN -12
                     ELSE IF d(0) <= d(12) THEN 0 ELSE 12
         IN  shifted(best)

\* The velocity without the accent on beats 1 and 3
compute_chord_velocity_unaccented(base_velocity, offset_in_quarters, rnd) ==
    Max(40, Min(127, base_velocity + Randint(rnd, -8, 8)))

compute_chord_velocity(base_velocity, offset_in_quarters, rnd) ==
    LET jitter == Randint(rnd, -8, 8)
        accent == IF offset_in_quarters = 0 \/ offset_in_quarters = 200
                  THEN 10 ELSE 0
    IN  Max(40, Min(127, base_velocity + jitter + accent))

\* A note a renderer is about to emit: everything but the velocity.
\* base_velocity and offset (hundredths of a quarter) are what the renderer
\* hands to _compute_chord_velocity; they stay on the event as history.
NoteRequest(start_time, end_time, pitch, base_velocity, offset) ==
    [start_time |-> start_time, end_time |-> end_time, pitch |-> pitch,
     base_velocity |-> base_velocity, offset |-> offset]

\* events.append(NoteEvent(...)) with the velocity drawn for the request;
\* out = [events, rnd]
AppendNote(out, q, channel) ==
    [events |-> Append(out.events,
                    [start_time |-> q.start_time, end_time |-> q.end_time,
                     pitch |-> q.pitch,
                     velocity |-> compute_chord_velocity(q.base_velocity, q.offset,
                                                         out.rnd),
                     channel |-> channel,
                     base_velocity |-> q.base_velocity, offset |-> q.offset]),
     rnd |-> RngNext(out.rnd)]

\* The requests in order, one velocity draw per note
EmitNotes(out, requests, channel) ==
    ForEach(LAMBDA o, q : AppendNote(o, q, channel), out, requests)

render_block_chord(out, voicing, start_time, end_time, offset_quarters, base_velocity, channel) ==
    EmitNotes(out,
              SeqOf([i \in 1..Len(voicing) |->
                  NoteRequest(start_time, end_time, voicing[i], base_velocity,
                              offset_quarters)]),
              channel)

\* Eighth-note steps: pitchAt(step) every half quarter, each note lasting
\* gate percent of the step (arp_up, arp_down: 90; top_pulse: 60).
RenderSteps(out, pitchAt(_), start_time, duration_quarters, quarter_duration, offset_quarters, base_velocity, channel, gate) ==
    LET total_steps == Max(1, duration_quarters \div 50)
        step_len == quarter_duration \div 2
    IN  EmitNotes(out,
                  SeqOf([k \in 1..total_steps |->
                      LET t == start_time + (k - 1) * step_len
                      IN  NoteRequest(t, t + (step_len * gate) \div 100,
                                      pitchAt(k - 1), base_velocity,
                                      offset_quarters + (k - 1) * 50)]),
                  channel)

render_arp_up(out, voicing, start_time, duration_quarters, quarter_duration, offset_quarters, base_velocity, channel) ==
    LET pitchAt(step) == voicing[(step % Len(voicing)) + 1]
    IN  RenderSteps(out, pitchAt, start_time, duration_quarters, quarter_duration,
                    offset_quarters, base_velocity, channel, 90)

render_arp_down(out, voicing, start_time, duration_quarters, quarter_duration, offset_quarters, base_velocity, channel) ==
    LET pitchAt(step) == voicing[Len(voicing) - (step % Len(voicing))]
    IN  RenderSteps(out, pitchAt, start_time, duration_quarters, quarter_duration,
                    offset_quarters, base_velocity, channel, 90)

RECURSIVE MaxOfSeq(_)
MaxOfSeq(s) == IF Len(s) = 1 THEN s[1] ELSE Max(Head(s), MaxOfSeq(Tail(s)))

render_top_pulse(out, voicing, start_time, duration_quarters, quarter_duration, offset_quarters, base_velocity, channel) ==
    IF voicing = <<>> THEN out
    ELSE LET pitchAt(step) == MaxOfSeq(voicing)
         IN  RenderSteps(out, pitchAt, start_time, duration_quarters,
                         quarter_duration, offset_quarters, base_velocity,
                         channel, 60)

----------------------------------------------------------------------------
(* HarmonyGenerator: progression and chord track *)

bar_and_qnote_duration(tempo_bpm, numerator, denominator) ==
    LET quarter_duration == (60 * UnitsPerSecond) \div tempo_bpm
    IN  [bar_duration |-> (numerator * 4 * quarter_duration) \div denominator,
         quarter_duration |-> quarter_duration]

\* "minor" in key.lower(), for the keys of scale_vocab
KeyIsMinor(key) == key \in {"D minor", "E minor", "A minor"}

\* "funk" in style, for the styles generate_song_specification draws
StyleHasFunk(style) == style \in {"funk", "funk_pop"}

\* The first bars of the chosen progression, not repeated
choose_chord_progression_untiled(song_specification) ==
    LET R_I == <<"I">>
        R_i == <<"i">>
        R_ii == <<"i", "i">>
        R_III == <<"I", "I", "I">>
        R_IV == <<"I", "V">>
        R_iv == <<"i", "v">>
        R_V == <<"V">>
        R_VI == <<"V", "I">>
        R_vi == <<"v", "i">>
        R_VII == <<"V", "I", "I">>
        Cut(base_progression) ==
            SubSeq(base_progression, 1,
                   Max(0, Min(song_specification.number_of_bars, Len(base_progression))))
    IN  Cut(RandomChoice(RngSeed(song_specification.random_seed + 100),
                  IF StyleHasFunk(song_specification.style)
                  THEN << <<R_I, R_IV, R_I, R_V>>, <<R_I, R_ii, R_IV, R_V>> >>
                  ELSE IF KeyIsMinor(song_specification.key)
                  THEN << <<R_i, R_VI, R_III, R_VII>>, <<R_i, R_iv, R_VII, R_III>> >>
                  ELSE << <<R_I, R_V, R_vi, R_IV>>, <<R_I, R_vi, R_IV, R_V>>,
                          <<R_I, R_IV, R_V, R_IV>> >>))

\* A roman numeral is the sequence of its characters; R_x is the numeral "x".
\* base_progression * repetitions is the list repeated, [:total_bars] its
\* first total_bars elements (total_bars >= 0)
choose_chord_progression(song_specification) ==
    LET R_I == <<"I">>
        R_i == <<"i">>
        R_ii == <<"i", "i">>
        R_III == <<"I", "I", "I">>
        R_IV == <<"I", "V">>
        R_iv == <<"i", "v">>
        R_V == <<"V">>
        R_VI == <<"V", "I">>
        R_vi == <<"v", "i">>
        R_VII == <<"V", "I", "I">>
        Truncate(repeated, total_bars) ==
            SubSeq(repeated, 1, Min(total_bars, Len(repeated)))
        Repeat(base_progression, repetitions, total_bars) ==
            Truncate(SeqOf([i \in 1..(Len(base_progression) * repetitions) |->
                         base_progression[((i - 1) % Len(base_progression)) + 1]]),
                     total_bars)
        Cycle(base_progression, total_bars) ==
            Repeat(base_progression,
                   (total_bars + Len(base_progression) - 1) \div Len(base_progression),
                   total_bars)
    IN  Cycle(RandomChoice(RngSeed(song_specification.random_seed + 100),
                  IF StyleHasFunk(song_specification.style)
                  THEN << <<R_I, R_IV, R_I, R_V>>, <<R_I, R_ii, R_IV, R_V>> >>
                  ELSE IF KeyIsMinor(song_specification.key)
                  THEN << <<R_i, R_VI, R_III, R_VII>>, <<R_i, R_iv, R_VII, R_III>> >>
                  ELSE << <<R_I, R_V, R_vi, R_IV>>, <<R_I, R_vi, R_IV, R_V>>,
                          <<R_I, R_IV, R_V, R_IV>> >>),
              song_specification.number_of_bars)

ArpPatterns(all_patterns) ==
    SelectSeq(all_patterns,
              LAMBDA p : \E i \in 1..Len(p) : p[i][3] \in {"arp_up", "arp_down"})

NonArpPatterns(all_patterns) ==
    SelectSeq(all_patterns,
              LAMBDA p : \A i \in 1..Len(p) : p[i][3] \notin {"arp_up", "arp_down"})

\* Pattern choice of one bar: [pattern, rnd]
select_pattern_for_bar(instrument, all_patterns, rnd) ==
    LET Choose(pool, r) == [pattern |-> RandomChoice(r, pool), rnd |-> RngNext(r)]
        \* p10 = -1: any other instrument. "arp_patterns and rnd.random() < p":
        \* the draw happens only when there are arpeggio patterns
        Typed(p10, arp_patterns, non_arp_patterns) ==
            Choose(IF p10 < 0 THEN all_patterns
                   ELSE IF arp_patterns # <<>> /\ RandomBelow(rnd, p10, 10)
                   THEN arp_patterns
                   ELSE IF non_arp_patterns # <<>> THEN non_arp_patterns
                   ELSE all_patterns,
                   IF p10 >= 0 /\ arp_patterns # <<>> THEN RngNext(rnd) ELSE rnd)
        Kind(kw, arp_patterns) ==
            Typed(IF "guitar" \in kw /\ arp_patterns # <<>> THEN 7
                  ELSE IF ("piano" \in kw \/ "keys" \in kw) /\ all_patterns # <<>> THEN 4
                  ELSE IF "organ" \in kw /\ all_patterns # <<>> THEN 1
                  ELSE -1,
                  arp_patterns, NonArpPatterns(all_patterns))
    IN  Kind(NameKeywords(instrument.name), ArpPatterns(all_patterns))

\* quality + "7" when the chord vocabulary has it, else ""
ExtendedQuality(quality) ==
    IF quality = "maj" /\ ChordVocabHas("maj7") THEN "maj7"
    ELSE IF quality = "min" /\ ChordVocabHas("min7") THEN "min7"
    ELSE ""

render_pattern_for_bar(out, pattern, voicing, bar_start_time, quarter_duration, channel) ==
    LET Mode(o, offset_quarters, duration_quarters, mode, start_time) ==
            CASE mode = "arp_up" ->
                     render_arp_up(o, voicing, start_time, duration_quarters,
                                   quarter_duration, offset_quarters, 80, channel)
              [] mode = "arp_down" ->
                     render_arp_down(o, voicing, start_time, duration_quarters,
                                     quarter_duration, offset_quarters, 80, channel)
              [] mode = "top_pulse" ->
                     render_top_pulse(o, voicing, start_time, duration_quarters,
                                      quarter_duration, offset_quarters, 85, channel)
              [] OTHER ->
                     render_block_chord(o, voicing, start_time,
                         start_time + (duration_quarters * quarter_duration) \div 100,
                         offset_quarters, 90, channel)
        Entry(o, e) ==
            Mode(o, e[1], e[2], e[3], bar_start_time + (e[1] * quarter_duration) \div 100)
    IN  ForEach(Entry, out, pattern)

\* A seed that mixes in every channel of the band instead of the
\* instrument's own one
ChordSeedOfBand(song_specification, instrument) ==
    song_specification.random_seed
    + 97 * SumSeq(SeqOf([i \in 1..Len(song_specification.band_configuration) |->
                      song_specification.band_configuration[i].channel]))

ChordSeed(song_specification, instrument) ==
    song_specification.random_seed + instrument.channel * 97

\* One pass of generate_chord_track's loop; acc = [events, rnd, prev_voicing,
\* raised]. raised = TRUE stands for the ValueError leaving the call.
ChordBar(acc, bar_index, progression, song_specification, instrument) ==
    LET Rendered(out, voicing) ==
            [events |-> out.events, rnd |-> out.rnd, prev_voicing |-> voicing,
             raised |-> FALSE]
        Render(voicing, sel, dur) ==
            Rendered(render_pattern_for_bar(
                         [events |-> acc.events, rnd |-> sel.rnd], sel.pattern,
                         voicing, bar_index * dur.bar_duration, dur.quarter_duration,
                         instrument.channel),
                     voicing)
        Voice(base_voicing, rnd1) ==
            Render(apply_voice_leading(base_voicing, acc.prev_voicing),
                   select_pattern_for_bar(instrument,
                       get_chord_patterns_for_instrument(instrument), rnd1),
                   bar_and_qnote_duration(song_specification.tempo_bpm,
                       song_specification.time_signature[1],
                       song_specification.time_signature[2]))
        Stack(intervals, root_pitch, is_guitar, rnd1) ==
            Voice(SeqOf([i \in 1..Len(intervals) |->
                      root_pitch + intervals[i] + (IF is_guitar THEN 12 ELSE 0)]),
                  rnd1)
        \* "extended_quality in self.chord_vocab and rnd.random() < 0.3"
        Extend(res, scale, extended_quality) ==
            Stack(IF extended_quality # "" /\ RandomBelow(acc.rnd, 3, 10)
                  THEN ChordVocabGet(extended_quality)
                  ELSE get_chord_intervals(res.quality),
                  48 + scale[(res.degree % Len(scale)) + 1],
                  "guitar" \in NameKeywords(instrument.name),
                  IF extended_quality # "" THEN RngNext(acc.rnd) ELSE acc.rnd)
        \* "degree_index % len(scale)" is evaluated when degree_index >=
        \* len(scale): a ZeroDivisionError for the empty scale
        Scaled(res, scale) ==
            IF Len(scale) = 0 THEN [acc EXCEPT !.raised = TRUE, !.events = <<>>]
            ELSE Extend(res, scale, ExtendedQuality(res.quality))
        Resolve(res) ==
            IF ~res.ok THEN [acc EXCEPT !.raised = TRUE, !.events = <<>>]
            ELSE Scaled(res, get_scale_for_key(song_specification.key))
    IN  IF acc.raised THEN acc
        ELSE Resolve(roman_to_degree_and_quality(progression[bar_index + 1]))

\* generate_chord_track after its first statement: progression is what
\* choose_chord_progression returned
ChordTrackFor(progression, song_specification, instrument) ==
    LET Track(acc) ==
            [raised |-> acc.raised, events |-> acc.events,
             seed |-> ChordSeed(song_specification, instrument)]
    IN  Track(ForEach(LAMBDA acc, bar_index :
                          ChordBar(acc, bar_index, progression, song_specification,
                                   instrument),
                      [events |-> <<>>,
                       rnd |-> RngSeed(ChordSeed(song_specification, instrument)),
                       prev_voicing |-> <<>>, raised |-> FALSE],
                      Range(Len(progression))))

generate_chord_track(song_specification, instrument) ==
    ChordTrackFor(choose_chord_progression(song_specification),
                  song_specification, instrument)

----------------------------------------------------------------------------
(* HarmonyGenerator: bass track *)

get_bass_root_pitch(degree_index, scale, base_c_midi_bass) ==
    base_c_midi_bass + scale[(degree_index % Len(scale)) + 1]

\* One pattern entry e = (offset_q, dur_q, func); st = [events, rnd,
\* cur_scale_idx]
BassEntry(st, e, degree_index, next_degree_index, scale, base_c_midi_bass, bar_start_time, quarter_duration, channel) ==
    LET Advance(out, walk_idx) ==
            [events |-> out.events, rnd |-> out.rnd, cur_scale_idx |-> walk_idx]
        add_note(offset_q, dur_q, pitch, rnd3, walk_idx, start) ==
            Advance(EmitNotes([events |-> st.events, rnd |-> rnd3],
                              <<NoteRequest(start,
                                    start + (dur_q * quarter_duration * 95) \div 10000,
                                    pitch, 94, offset_q)>>, channel),
                    walk_idx)
        \* register clamps: each draws only when its comparison holds
        ClampLow(pitch1, rnd2, walk_idx) ==
            add_note(e[1], e[2],
                     IF pitch1 < base_c_midi_bass - 12 /\ RandomBelow(rnd2, 5, 10)
                     THEN pitch1 + 12 ELSE pitch1,
                     IF pitch1 < base_c_midi_bass - 12 THEN RngNext(rnd2) ELSE rnd2,
                     walk_idx,
                     bar_start_time + (e[1] * quarter_duration) \div 100)
        ClampHigh(pitch0, rnd1, walk_idx) ==
            ClampLow(IF pitch0 > base_c_midi_bass + 24 /\ RandomBelow(rnd1, 5, 10)
                     THEN pitch0 - 12 ELSE pitch0,
                     IF pitch0 > base_c_midi_bass + 24 THEN RngNext(rnd1) ELSE rnd1,
                     walk_idx)
        Pitch(func, root_pitch, next_root_pitch, n, walk_idx) ==
            ClampHigh(
                CASE func = "fifth" -> root_pitch + 7
                  [] func = "octave" -> root_pitch + 12
                  [] func \in {"walk_up", "walk_down"} ->
                         base_c_midi_bass + scale[walk_idx + 1]
                  [] func = "approach_next" ->
                         IF RandomBelow(st.rnd, 25, 100)
                         THEN (IF next_root_pitch >= root_pitch
                               THEN next_root_pitch - 1 ELSE next_root_pitch + 1)
                         ELSE base_c_midi_bass
                              + scale[((IF next_root_pitch >= root_pitch
                                        THEN (next_degree_index % n) - 1
                                        ELSE (next_degree_index % n) + 1) % n) + 1]
                  [] OTHER -> root_pitch,
                IF func = "approach_next" THEN RngNext(st.rnd) ELSE st.rnd,
                walk_idx)
        Walk(func, n) ==
            Pitch(func,
                  get_bass_root_pitch(degree_index, scale, base_c_midi_bass),
                  get_bass_root_pitch(next_degree_index, scale, base_c_midi_bass),
                  n,
                  IF func = "walk_up" THEN (st.cur_scale_idx + 1) % n
                  ELSE IF func = "walk_down" THEN (st.cur_scale_idx - 1) % n
                  ELSE st.cur_scale_idx)
    IN  IF e[3] = "rest" THEN st ELSE Walk(e[3], Len(scale))

\* out = [events, rnd]
\* The pattern rendered with its root entries skipped like rests
render_bass_pattern_without_roots(out, pattern, degree_index, next_degree_index, scale, base_c_midi_bass, bar_start_time, quarter_duration, channel) ==
    ForEach(LAMBDA st, e :
                BassEntry(st, e, degree_index, next_degree_index, scale,
                          base_c_midi_bass, bar_start_time, quarter_duration, channel),
            [events |-> out.events, rnd |-> out.rnd,
             cur_scale_idx |-> degree_index % Len(scale)],
            SelectSeq(pattern, LAMBDA e : e[3] # "root"))

render_bass_pattern_template_for_bar(out, pattern, degree_index, next_degree_index, scale, base_c_midi_bass, bar_start_time, quarter_duration, channel) ==
    ForEach(LAMBDA st, e :
                BassEntry(st, e, degree_index, next_degree_index, scale,
                          base_c_midi_bass, bar_start_time, quarter_duration, channel),
            [events |-> out.events, rnd |-> out.rnd,
             cur_scale_idx |-> degree_index % Len(scale)],
            pattern)

BassSeed(song_specification, instrument) ==
    song_specification.random_seed + instrument.channel * 131

\* One pass of generate_bass_track's loop; acc = [events, rnd, raised]
BassBar(acc, bar_index, progression, song_specification, instrument) ==
    LET Rendered(out) == [events |-> out.events, rnd |-> out.rnd, raised |-> FALSE]
        Render(res, next_res, dur) ==
            Rendered(render_bass_pattern_template_for_bar(
                         [events |-> acc.events, rnd |-> RngNext(acc.rnd)],
                         RandomChoice(acc.rnd,
                             PatternsByInstrument(BASS_PATTERNS_BY_INSTRUMENT,
                                                  instrument)),
                         res.degree, next_res.degree,
                         get_scale_for_key(song_specification.key), 36,
                         bar_index * dur.bar_duration, dur.quarter_duration,
                         instrument.channel))
        \* _get_bass_root_pitch divides by len(scale) for the empty scale
        Resolve(res, next_res) ==
            IF ~res.ok \/ ~next_res.ok
               \/ Len(get_scale_for_key(song_specification.key)) = 0
            THEN [acc EXCEPT !.raised = TRUE, !.events = <<>>]
            ELSE Render(res, next_res,
                        bar_and_qnote_duration(song_specification.tempo_bpm,
                            song_specification.time_signature[1],
                            song_specification.time_signature[2]))
    IN  IF acc.raised THEN acc
        ELSE Resolve(roman_to_degree_and_quality(progression[bar_index + 1]),
                     roman_to_degree_and_quality(
                         progression[IF bar_index + 1 < Len(progression)
                                     THEN bar_index + 2 ELSE bar_index + 1]))

BassTrackFor(progression, song_specification, instrument) ==
    LET Track(acc) ==
            [raised |-> acc.raised, events |-> acc.events,
             seed |-> BassSeed(song_specification, instrument)]
    IN  Track(ForEach(LAMBDA acc, bar_index :
                          BassBar(acc, bar_index, progression, song_specification,
                                  instrument),
                      [events |-> <<>>,
                       rnd |-> RngSeed(BassSeed(song_specification, instrument)),
                       raised |-> FALSE],
                      Range(Len(progression))))

generate_bass_track(song_specification, instrument) ==
    BassTrackFor(choose_chord_progression(song_specification),
                 song_specification, instrument)

----------------------------------------------------------------------------
(* HarmonyGenerator: pad and lead tracks *)

is_pad_instrument(instrument) ==
    \/ instrument.role = "pad"
    \/ "string" \in NameKeywords(instrument.name)
    \/ "pad" \in NameKeywords(instrument.name)

is_lead_instrument(instrument) ==
    \/ instrument.role = "lead"
    \/ NameKeywords(instrument.name) \cap {"lead", "sax", "trumpet"} # {}

select_pad_voicing_type(rnd) ==
    IF RandomBelow(rnd, 40, 100) THEN "root7"
    ELSE IF RandomBelow(rnd, 75, 100) THEN "third_fifth"
    ELSE "fifth_ninth"

\* res is the resolved numeral of the bar
compute_pad_voicing_for_bar(res, scale, base_c_midi_pad, voicing_type) ==
    LET Voicing(root_pitch, triad_pitches, ext_pitches) ==
            CASE voicing_type = "root7" ->
                     IF Len(ext_pitches) >= 4
                     THEN <<ext_pitches[1], ext_pitches[Len(ext_pitches)]>>
                     ELSE <<root_pitch, root_pitch + 10>>
              [] voicing_type = "third_fifth" ->
                     IF Len(triad_pitches) >= 3 THEN SubSeq(triad_pitches, 2, 3)
                     ELSE triad_pitches
              [] voicing_type = "fifth_ninth" ->
                     << (IF Len(triad_pitches) >= 3 THEN triad_pitches[3]
                         ELSE root_pitch + 7),
                        root_pitch + 14 >>
              [] OTHER -> triad_pitches
        Pitches(root_pitch, intervals, ext) ==
            Voicing(root_pitch,
                    SeqOf([i \in 1..Len(intervals) |-> root_pitch + intervals[i]]),
                    SeqOf([i \in 1..Len(ext) |-> root_pitch + ext[i]]))
        Extended(extended_quality) ==
            Pitches(base_c_midi_pad + scale[(res.degree % Len(scale)) + 1],
                    get_chord_intervals(res.quality),
                    IF extended_quality # "" THEN ChordVocabGet(extended_quality)
                    ELSE get_chord_intervals(res.quality))
    IN  Extended(ExtendedQuality(res.quality))

PadBaseVelocity(mode) ==
    CASE mode = "pad_half" -> 72 [] mode = "pad_swell" -> 75
      [] mode = "pad_pulse" -> 78 [] OTHER -> 70

render_pad_pattern_template_for_bar(out, pattern, voicing, bar_start_time, quarter_duration, channel) ==
    LET Chord(o, offset_q, dur_q, mode, start_time) ==
            render_block_chord(o, voicing, start_time,
                               start_time + (dur_q * quarter_duration) \div 100,
                               offset_q, PadBaseVelocity(mode), channel)
        Entry(o, e) ==
            Chord(o, e[1], e[2], e[3], bar_start_time + (e[1] * quarter_duration) \div 100)
    IN  ForEach(Entry, out, pattern)

\* One pass of _generate_single_pad_track's loop
PadBar(acc, bar_index, progression, song_specification, instrument, base_c_midi_pad, voicing_type) ==
    LET Rendered(out) == [events |-> out.events, rnd |-> out.rnd, raised |-> FALSE]
        Render(res, dur) ==
            Rendered(render_pad_pattern_template_for_bar(
                         [events |-> acc.events, rnd |-> RngNext(acc.rnd)],
                         RandomChoice(acc.rnd,
                             PatternsByInstrument(PAD_PATTERNS_BY_INSTRUMENT,
                                                  instrument)),
                         compute_pad_voicing_for_bar(res,
                             get_scale_for_key(song_specification.key),
                             base_c_midi_pad, voicing_type),
                         bar_index * dur.bar_duration, dur.quarter_duration,
                         instrument.channel))
        \* _compute_pad_voicing_for_bar divides by len(scale) for the empty scale
        Resolve(res) ==
            IF ~res.ok \/ Len(get_scale_for_key(song_specification.key)) = 0
            THEN [acc EXCEPT !.raised = TRUE, !.events = <<>>]
            ELSE Render(res, bar_and_qnote_duration(song_specification.tempo_bpm,
                                 song_specification.time_signature[1],
                                 song_specification.time_signature[2]))
    IN  IF acc.raised THEN acc
        ELSE Resolve(roman_to_degree_and_quality(progression[bar_index + 1]))

generate_single_pad_track(progression, song_specification, instrument, rnd) ==
    LET Bars(base_c_midi_pad, voicing_type) ==
            ForEach(LAMBDA acc, bar_index :
                        PadBar(acc, bar_index, progression, song_specification,
                               instrument, base_c_midi_pad, voicing_type),
                    [events |-> <<>>, rnd |-> RngNext(RngNext(rnd)), raised |-> FALSE],
                    Range(Len(progression)))
    IN  Bars(IF RandomBelow(rnd, 5, 10) THEN 48 ELSE 60,
             select_pad_voicing_type(RngNext(rnd)))

render_lead_pattern_template_for_bar(out, pattern, degree_index, scale, bar_start_time, quarter_duration, channel) ==
    LET Note(o, offset_q, dur_q, rel_step, start_time) ==
            EmitNotes(o,
                      <<NoteRequest(start_time,
                            start_time + (dur_q * quarter_duration * 90) \div 10000,
                            72 + scale[((degree_index + rel_step) % Len(scale)) + 1],
                            95, offset_q)>>,
                      channel)
        Entry(o, e) ==
            Note(o, e[1], e[2], e[3], bar_start_time + (e[1] * quarter_duration) \div 100)
    IN  ForEach(Entry, out, pattern)

\* One pass of _generate_single_lead_track's loop: a motif with probability
\* 0.7 in the bars of even index, 0.4 in the others; the numeral is resolved
\* only in a bar that plays.
LeadBar(acc, bar_index, progression, song_specification, instrument) ==
    LET Rendered(out) == [events |-> out.events, rnd |-> out.rnd, raised |-> FALSE]
        Render(res, scale, dur, rnd1) ==
            Rendered(render_lead_pattern_template_for_bar(
                         [events |-> acc.events, rnd |-> RngNext(rnd1)],
                         RandomChoice(rnd1,
                             PatternsByInstrument(LEAD_PATTERNS_BY_INSTRUMENT,
                                                  instrument)),
                         res.degree % Len(scale), scale,
                         bar_index * dur.bar_duration, dur.quarter_duration,
                         instrument.channel))
        \* _render_lead_pattern_template_for_bar divides by len(scale) for the
        \* empty scale
        Resolve(res, rnd1) ==
            IF ~res.ok \/ Len(get_scale_for_key(song_specification.key)) = 0
            THEN [acc EXCEPT !.raised = TRUE, !.events = <<>>]
            ELSE Render(res, get_scale_for_key(song_specification.key),
                        bar_and_qnote_duration(song_specification.tempo_bpm,
                            song_specification.time_signature[1],
                            song_specification.time_signature[2]),
                        rnd1)
        Bar(plays) ==
            IF ~plays THEN [acc EXCEPT !.rnd = RngNext(acc.rnd)]
            ELSE Resolve(roman_to_degree_and_quality(progression[bar_index + 1]),
                         RngNext(acc.rnd))
    IN  IF acc.raised THEN acc
        ELSE Bar(RandomBelow(acc.rnd, IF bar_index % 2 = 0 THEN 7 ELSE 4, 10))

generate_single_lead_track(progression, song_specification, instrument, rnd) ==
    ForEach(LAMBDA acc, bar_index :
                LeadBar(acc, bar_index, progression, song_specification, instrument),
            [events |-> <<>>, rnd |-> rnd, raised |-> FALSE],
            Range(Len(progression)))

PadLeadSeed(song_specification, instrument) ==
    song_specification.random_seed + instrument.channel * 173

\* One pass of generate_pad_or_lead_tracks's loop; all = [raised, tracks] with
\* a track [instrument, seed, events] per instrument that was rendered
PadOrLeadTrack(all, instrument, progression, song_specification) ==
    LET Extend(one) ==
            IF one.raised THEN [raised |-> TRUE, tracks |-> <<>>]
            ELSE [raised |-> FALSE,
                  tracks |-> Append(all.tracks,
                                 [instrument |-> instrument,
                                  seed |-> PadLeadSeed(song_specification, instrument),
                                  events |-> one.events])]
        Single(rnd) ==
            Extend(IF is_pad_instrument(instrument)
                   THEN generate_single_pad_track(progression, song_specification,
                                                  instrument, rnd)
                   ELSE generate_single_lead_track(progression, song_specification,
                                                   instrument, rnd))
    IN  IF all.raised THEN all
        ELSE IF ~(is_pad_instrument(instrument) \/ is_lead_instrument(instrument))
        THEN all
        ELSE Single(RngSeed(PadLeadSeed(song_specification, instrument)))

PadOrLeadTracksFor(progression, song_specification, instruments) ==
    ForEach(LAMBDA all, instrument :
                PadOrLeadTrack(all, instrument, progression, song_specification),
            [raised |-> FALSE, tracks |-> <<>>], instruments)

generate_pad_or_lead_tracks(song_specification, instruments) ==
    PadOrLeadTracksFor(choose_chord_progression(song_specification),
                       song_specification, instruments)

----------------------------------------------------------------------------
(* Drum pattern libraries (drum_patterns/*.py): PATTERNS in insertion order,  *)
(* each pattern its voices in insertion order, each step string its           *)
(* characters.                                                                *)

STEP_RESOLUTION == 16

pop_straight_patterns ==
    LET x == "x"
        o == "-"
    IN  <<
       <<"pop_straight_01_basic", <<
            <<"KICK", <<x,o,o,o,o,o,o,o,x,o,o,o,o,o,o,o>> >>,
            <<"SNARE", <<o,o,o,o,x,o,o,o,o,o,o,o,x,o,o,o>> >>,
            <<"HH_CLOSED", <<x,o,x,o,x,o,x,o,x,o,x,o,x,o,x,o>> >> >> >>,
       <<"pop_straight_02_kick_syncopated", <<
            <<"KICK", <<x,o,o,o,o,o,x,o,x,o,o,o,o,o,x,o>> >>,
            <<"SNARE", <<o,o,o,o,x,o,o,o,o,o,o,o,x,o,o,o>> >>,
            <<"HH_CLOSED", <<x,o,x,o,x,o,x,o,x,o,x,o,x,o,x,o>> >>,
            <<"CRASH", <<x,o,o,o,o,o,o,o,o,o,o,o,o,o,o,o>> >> >> >>,
       <<"pop_straight_03_drive", <<
            <<"KICK", <<x,o,x,o,o,o,o,o,x,o,x,o,o,o,o,o>> >>,
            <<"SNARE", <<o,o,o,o,x,o,o,o,o,o,o,o,x,o,o,o>> >>,
            <<"HH_CLOSED", <<x,o,x,o,x,o,x,o,x,o,x,o,x,o,x,o>> >>,
            <<"HH_OPEN", <<o,o,o,o,o,o,o,o,o,o,o,o,o,o,x,o>> >> >> >>,
       <<"pop_straight_04_syncopated", <<
            <<"KICK", <<x,o,o,x,o,o,x,o,x,o,o,x,o,o,o,o>> >>,
            <<"SNARE", <<o,o,o,o,x,o,o,o,o,o,o,o,x,o,o,o>> >>,
            <<"HH_CLOSED", <<x,o,x,o,x,o,x,o,x,o,x,o,x,o,x,o>> >> >> >>,
       <<"pop_straight_05_16th_hats", <<
            <<"KICK", <<x,o,o,x,o,o,x,o,x,o,o,o,o,o,x,o>> >>,
            <<"SNARE", <<o,o,o,o,x,o,o,o,o,o,o,o,x,o,o,o>> >>,
            <<"HH_CLOSED", <<x,x,x,x,x,x,x,x,x,x,x,x,x,x,x,x>> >> >> >>,
       <<"pop_straight_06_sidestick_verse", <<
            <<"KICK", <<x,o,o,o,o,o,x,o,x,o,o,o,o,o,o,o>> >>,
            <<"SNARE", <<o,o,o,o,o,o,o,o,o,o,o,o,x,o,o,o>> >>,
            <<"SIDESTICK", <<o,o,o,o,x,o,o,o,o,o,o,o,o,o,o,o>> >>,
            <<"HH_CLOSED", <<x,o,x,o,x,o,x,o,x,o,x,o,x,o,x,o>> >> >> >>,
       <<"pop_straight_07_pre_chorus", <<
            <<"KICK", <<x,o,o,x,o,o,x,o,x,o,x,o,o,o,x,o>> >>,
            <<"SNARE", <<o,o,o,o,x,o,o,o,o,o,o,o,x,o,o,o>> >>,
            <<"HH_CLOSED", <<x,o,x,o,x,o,x,o,x,o,x,o,x,o,x,o>> >>,
            <<"HH_OPEN", <<o,o,o,o,o,o,o,o,o,o,o,o,o,x,o,o>> >> >> >>,
       <<"pop_straight_08_chorus_four_on_floor", <<
            <<"KICK", <<x,o,o,o,x,o,o,o,x,o,o,o,x,o,o,o>> >>,
            <<"SNARE", <<o,o,o,o,x,o,o,o,o,o,o,o,x,o,o,o>> >>,
            <<"RIDE", <<x,o,x,o,x,o,x,o,x,o,x,o,x,o,x,o>> >>,
            <<"CRASH", <<x,o,o,o,o,o,o,o,o,o,o,o,o,o,o,o>> >> >> >>,
       <<"pop_straight_09_tom_pickup", <<
            <<"KICK", <<x,o,o,o,o,o,o,o,x,o,o,o,o,o,o,o>> >>,
            <<"SNARE", <<o,o,o,o,x,o,o,o,o,o,o,o,x,o,o,o>> >>,
            <<"HH_CLOSED", <<x,o,x,o,x,o,x,o,x,o,x,o,x,o,x,o>> >>,
            <<"TOM_LOW", <<o,o,o,o,o,o,o,o,o,o,o,o,x,o,o,o>> >>,
            <<"TOM_MID", <<o,o,o,o,o,o,o,o,o,o,o,o,o,x,o,o>> >>,
            <<"TOM_HIGH", <<o,o,o,o,o,o,o,o,o,o,o,o,o,o,x,o>> >> >> >>,
       <<"pop_straight_10_broken_hats", <<
            <<"KICK", <<x,o,o,o,o,o,x,o,x,o,o,o,o,o,x,o>> >>,
            <<"SNARE", <<o,o,o,o,x,o,o,o,o,o,o,o,x,o,o,o>> >>,
            <<"HH_CLOSED", <<x,o,x,o,x,o,x,o,x,o,x,o,x,o,x,o>> >> >> >> >>

rock_patterns ==
    LET x == "x"
        o == "-"
    IN  <<
       <<"rock16_01_basic", <<
            <<"KICK", <<x,o,o,o,o,o,o,o,x,o,o,o,o,o,x,o>> >>,
            <<"SNARE", <<o,o,o,o,x,o,o,o,o,o,o,o,x,o,o,o>> >>,
            <<"HH_CLOSED", <<x,x,x,x,x,x,x,x,x,x,x,x,x,x,x,x>> >> >> >>,
       <<"rock16_02_syncopated", <<
            <<"KICK", <<x,o,o,x,o,o,x,o,x,o,o,o,o,x,o,o>> >>,
            <<"SNARE", <<o,o,o,o,x,o,o,o,o,o,o,o,x,o,o,o>> >>,
            <<"HH_CLOSED", <<x,x,x,x,x,x,x,x,x,x,x,x,x,x,x,x>> >> >> >>,
       <<"rock16_03_californication_like", <<
            <<"KICK", <<x,o,o,o,o,o,o,o,o,x,o,o,o,o,o,o>> >>,
            <<"SNARE", <<o,o,o,o,x,o,x,o,o,o,x,o,o,x,o,x>> >>,
            <<"HH_CLOSED", <<x,x,x,x,x,x,x,x,x,x,x,x,x,x,x,x>> >> >> >>,
       <<"rock16_04_hat_accents", <<
            <<"KICK", <<x,o,o,o,o,o,x,o,x,o,o,o,o,o,x,o>> >>,
            <<"SNARE", <<o,o,o,o,x,o,o,o,o,o,o,o,x,o,o,o>> >>,
            <<"HH_CLOSED", <<x,o,x,x,x,o,x,x,x,o,x,x,x,o,x,x>> >> >> >>,
       <<"rock16_05_broken_hat_riff", <<
            <<"KICK", <<x,o,o,x,o,o,x,o,x,o,o,x,o,o,x,o>> >>,
            <<"SNARE", <<o,o,o,o,x,o,o,o,o,o,o,o,x,o,o,o>> >>,
            <<"HH_CLOSED", <<x,o,x,o,o,x,o,x,x,o,x,o,o,x,o,x>> >> >> >>,
       <<"rock16_06_chorus_drive", <<
            <<"KICK", <<x,o,x,x,o,o,x,o,x,o,x,x,o,o,x,o>> >>,
            <<"SNARE", <<o,o,o,o,x,o,o,o,o,o,o,o,x,o,o,o>> >>,
            <<"HH_CLOSED", <<x,x,x,x,x,x,x,x,x,x,x,x,x,x,x,x>> >> >> >>,
       <<"rock16_07_half_time_feel", <<
            <<"KICK", <<x,o,o,o,x,o,o,x,o,o,o,o,x,o,o,x>> >>,
            <<"SNARE", <<o,o,o,o,o,o,o,o,x,o,o,o,o,o,o,o>> >>,
            <<"HH_CLOSED", <<x,x,x,x,x,x,x,x,x,x,x,x,x,x,x,x>> >> >> >>,
       <<"rock16_08_pre_chorus_build", <<
            <<"KICK", <<x,o,o,o,o,o,x,o,x,o,x,o,x,o,x,o>> >>,
            <<"SNARE", <<o,o,o,o,x,o,o,o,o,o,o,o,x,o,o,o>> >>,
            <<"HH_CLOSED", <<x,x,x,x,x,o,x,x,x,x,x,x,x,o,x,x>> >> >> >>,
       <<"rock16_09_tom_groove", <<
            <<"KICK", <<x,o,o,o,o,o,o,o,x,o,o,x,o,o,o,o>> >>,
            <<"SNARE", <<o,o,o,o,x,o,o,o,o,o,o,o,x,o,o,o>> >>,
            <<"HH_CLOSED", <<x,x,x,x,x,x,x,x,x,x,x,x,x,x,x,x>> >>,
            <<"TOM_LOW", <<o,o,o,o,o,o,o,o,x,x,x,x,o,o,o,o>> >> >> >>,
       <<"rock16_10_ride_variant", <<
            <<"KICK", <<x,o,o,x,o,o,x,o,x,o,o,x,o,o,x,o>> >>,
            <<"SNARE", <<o,o,o,o,x,o,o,o,o,o,o,o,x,o,o,o>> >>,
            <<"RIDE", <<x,x,x,x,x,x,x,x,x,x,x,x,x,x,x,x>> >>,
            <<"HH_OPEN", <<o,o,o,o,o,o,o,o,o,o,o,o,o,o,x,o>> >> >> >> >>

funk_patterns ==
    LET x == "x"
        o == "-"
    IN  <<
       <<"funk_01_basic", <<
            <<"KICK", <<x,o,o,x,o,o,x,o,x,o,o,x,o,o,x,o>> >>,
            <<"SNARE", <<o,o,o,o,x,o,o,o,o,o,o,o,x,o,o,o>> >>,
            <<"HH_CLOSED", <<x,x,x,x,x,x,x,x,x,x,x,x,x,x,x,x>> >> >> >>,
       <<"funk_02_linear_flavor", <<
            <<"KICK", <<x,o,x,x,o,o,o,o,x,o,x,x,o,o,o,o>> >>,
            <<"SNARE", <<o,o,o,o,x,o,o,o,o,o,o,o,x,o,o,o>> >>,
            <<"HH_CLOSED", <<o,x,o,x,x,o,x,o,o,x,o,x,x,o,x,o>> >> >> >>,
       <<"funk_03_ghosts_between", <<
            <<"KICK", <<x,o,o,o,o,o,x,o,x,o,o,x,o,o,o,o>> >>,
            <<"SNARE", <<o,o,o,o,x,o,x,o,o,o,x,o,x,o,x,o>> >>,
            <<"HH_CLOSED", <<x,x,x,x,x,x,x,x,x,x,x,x,x,x,x,x>> >> >> >>,
       <<"funk_04_open_hat_offbeats", <<
            <<"KICK", <<x,o,o,x,o,o,x,o,x,o,o,x,o,o,x,o>> >>,
            <<"SNARE", <<o,o,o,o,x,o,o,o,o,o,o,o,x,o,o,o>> >>,
            <<"HH_CLOSED", <<x,o,x,o,x,o,x,o,x,o,x,o,x,o,x,o>> >>,
            <<"HH_OPEN", <<o,o,o,o,o,o,x,o,o,o,o,o,o,o,x,o>> >> >> >>,
       <<"funk_05_sparse_hat_busy_kick", <<
            <<"KICK", <<x,o,x,x,o,x,o,x,x,o,x,x,o,x,o,x>> >>,
            <<"SNARE", <<o,o,o,o,x,o,o,o,o,o,o,o,x,o,o,o>> >>,
            <<"HH_CLOSED", <<x,o,o,o,x,o,o,o,x,o,o,o,x,o,o,o>> >> >> >>,
       <<"funk_06_snare_displaced", <<
            <<"KICK", <<x,o,o,x,o,o,x,o,x,o,o,x,o,o,x,o>> >>,
            <<"SNARE", <<o,o,o,o,o,x,o,o,o,o,x,o,x,o,o,x>> >>,
            <<"HH_CLOSED", <<x,x,x,x,x,x,x,x,x,x,x,x,x,x,x,x>> >> >> >>,
       <<"funk_07_hat_barks", <<
            <<"KICK", <<x,o,o,x,o,o,x,o,x,o,o,x,o,o,x,o>> >>,
            <<"SNARE", <<o,o,o,o,x,o,o,o,o,o,o,o,x,o,o,o>> >>,
            <<"HH_CLOSED", <<x,x,x,x,x,x,x,x,x,x,x,x,x,x,x,x>> >>,
            <<"HH_OPEN", <<o,o,o,x,o,o,x,o,o,o,o,x,o,o,x,o>> >> >> >>,
       <<"funk_08_tom_linear", <<
            <<"KICK", <<x,o,o,x,o,o,o,o,x,o,o,x,o,o,o,o>> >>,
            <<"SNARE", <<o,o,o,o,x,o,o,o,o,o,o,o,x,o,o,o>> >>,
            <<"HH_CLOSED", <<x,x,x,x,x,x,x,x,x,x,x,x,x,x,x,x>> >>,
            <<"TOM_LOW", <<o,o,o,o,o,o,o,o,x,x,o,o,o,o,o,o>> >>,
            <<"TOM_MID", <<o,o,o,o,o,o,o,o,o,o,x,x,o,o,o,o>> >> >> >>,
       <<"funk_09_busy_hands", <<
            <<"KICK", <<x,o,o,o,o,o,x,o,x,o,o,o,o,o,x,o>> >>,
            <<"SNARE", <<o,o,x,o,x,o,x,o,o,x,o,x,x,o,x,o>> >>,
            <<"HH_CLOSED", <<x,x,x,x,x,x,x,x,x,x,x,x,x,x,x,x>> >> >> >>,
       <<"funk_10_ghost_ladder", <<
            <<"KICK", <<x,o,x,x,o,o,x,o,x,o,x,x,o,o,x,o>> >>,
            <<"SNARE", <<o,o,x,o,x,o,x,x,o,o,x,o,x,o,x,x>> >>,
            <<"HH_CLOSED", <<x,x,x,x,x,x,x,x,x,x,x,x,x,x,x,x>> >> >> >> >>

disco_patterns ==
    LET x == "x"
        o == "-"
    IN  <<
       <<"disco_01_classic", <<
            <<"KICK", <<x,o,o,o,x,o,o,o,x,o,o,o,x,o,o,o>> >>,
            <<"SNARE", <<o,o,o,o,x,o,o,o,o,o,o,o,x,o,o,o>> >>,
            <<"HH_CLOSED", <<x,o,x,o,x,o,x,o,x,o,x,o,x,o,x,o>> >>,
            <<"HH_OPEN", <<o,x,o,x,o,x,o,x,o,x,o,x,o,x,o,x>> >> >> >>,
       <<"disco_02_pure_offbeat_open", <<
            <<"KICK", <<x,o,o,o,x,o,o,o,x,o,o,o,x,o,o,o>> >>,
            <<"SNARE", <<o,o,o,o,x,o,o,o,o,o,o,o,x,o,o,o>> >>,
            <<"HH_CLOSED", <<x,o,o,o,x,o,o,o,x,o,o,o,x,o,o,o>> >>,
            <<"HH_OPEN", <<o,x,o,x,o,x,o,x,o,x,o,x,o,x,o,x>> >> >> >>,
       <<"disco_03_ride_chorus", <<
            <<"KICK", <<x,o,o,o,x,o,o,o,x,o,o,o,x,o,o,o>> >>,
            <<"SNARE", <<o,o,o,o,x,o,o,o,o,o,o,o,x,o,o,o>> >>,
            <<"RIDE", <<x,o,x,o,x,o,x,o,x,o,x,o,x,o,x,o>> >>,
            <<"HH_OPEN", <<o,x,o,x,o,x,o,x,o,x,o,x,o,x,o,x>> >> >> >>,
       <<"disco_04_kick_anticipations", <<
            <<"KICK", <<x,o,x,x,x,o,x,x,x,o,x,x,x,o,x,x>> >>,
            <<"SNARE", <<o,o,o,o,x,o,o,o,o,o,o,o,x,o,o,o>> >>,
            <<"HH_CLOSED", <<x,o,x,o,x,o,x,o,x,o,x,o,x,o,x,o>> >>,
            <<"HH_OPEN", <<o,x,o,x,o,x,o,x,o,x,o,x,o,x,o,x>> >> >> >>,
       <<"disco_05_snare_strong", <<
            <<"KICK", <<x,o,o,o,x,o,o,o,x,o,o,o,x,o,o,o>> >>,
            <<"SNARE", <<o,o,o,o,x,o,o,o,o,o,o,o,x,o,o,o>> >>,
            <<"HH_CLOSED", <<x,o,x,o,x,o,x,o,x,o,x,o,x,o,x,o>> >> >> >>,
       <<"disco_06_breakdown", <<
            <<"KICK", <<x,o,o,o,x,o,o,o,x,o,o,o,x,o,o,o>> >>,
            <<"SNARE", <<o,o,o,o,o,o,o,o,o,o,o,o,x,o,o,o>> >>,
            <<"HH_CLOSED", <<o,o,o,o,o,o,o,o,o,o,o,o,o,o,o,o>> >>,
            <<"HH_OPEN", <<o,x,o,x,o,x,o,x,o,x,o,x,o,x,o,x>> >> >> >>,
       <<"disco_07_buildup_16th", <<
            <<"KICK", <<x,o,o,o,x,o,o,o,x,o,o,o,x,o,o,o>> >>,
            <<"SNARE", <<o,o,o,o,x,o,o,o,o,o,o,o,x,o,o,o>> >>,
            <<"HH_CLOSED", <<x,x,x,x,x,x,x,x,x,x,x,x,x,x,x,x>> >>,
            <<"HH_OPEN", <<o,x,o,x,o,x,o,x,o,x,o,x,o,x,o,x>> >> >> >>,
       <<"disco_08_big_chorus", <<
            <<"KICK", <<x,o,o,o,x,o,o,o,x,o,o,o,x,o,o,o>> >>,
            <<"SNARE", <<o,o,o,o,x,o,o,o,o,o,o,o,x,o,o,o>> >>,
            <<"HH_CLOSED", <<x,o,x,o,x,o,x,o,x,o,x,o,x,o,x,o>> >>,
            <<"HH_OPEN", <<o,x,o,x,o,x,o,x,o,x,o,x,o,x,o,x>> >>,
            <<"CRASH", <<x,o,o,o,x,o,o,o,x,o,o,o,x,o,o,o>> >> >> >>,
       <<"disco_09_tom_fill", <<
            <<"KICK", <<x,o,o,o,x,o,o,o,x,o,o,o,x,o,o,o>> >>,
            <<"SNARE", <<o,o,o,o,x,o,o,o,o,o,o,o,x,o,o,o>> >>,
            <<"HH_CLOSED", <<x,o,x,o,x,o,x,o,x,o,x,o,x,o,x,o>> >>,
            <<"HH_OPEN", <<o,x,o,x,o,x,o,x,o,x,o,x,o,x,o,x>> >>,
            <<"TOM_LOW", <<o,o,o,o,o,o,o,o,o,o,o,o,x,x,o,o>> >>,
            <<"TOM_MID", <<o,o,o,o,o,o,o,o,o,o,o,o,o,o,x,x>> >> >> >>,
       <<"disco_10_ride_bell", <<
            <<"KICK", <<x,o,o,o,x,o,o,o,x,o,o,o,x,o,o,o>> >>,
            <<"SNARE", <<o,o,o,o,x,o,o,o,o,o,o,o,x,o,o,o>> >>,
            <<"RIDE", <<o,x,o,x,o,x,o,x,o,x,o,x,o,x,o,x>> >>,
            <<"HH_OPEN", <<o,x,o,x,o,x,o,x,o,x,o,x,o,x,o,x>> >> >> >> >>

shuffle_patterns ==
    LET x == "x"
        o == "-"
    IN  <<
       <<"shuffle_01_basic_half_time", <<
            <<"KICK", <<x,o,o,o,o,o,o,o,x,o,o,o,o,o,x,o>> >>,
            <<"SNARE", <<o,o,o,o,o,o,o,o,x,o,o,o,o,o,o,o>> >>,
            <<"HH_CLOSED", <<x,o,x,o,x,o,x,o,x,o,x,o,x,o,x,o>> >> >> >>,
       <<"shuffle_02_rosanna_flavor", <<
            <<"KICK", <<x,o,x,o,o,o,o,o,x,o,x,o,o,o,x,o>> >>,
            <<"SNARE", <<o,o,o,o,o,o,x,o,x,o,x,o,o,o,x,o>> >>,
            <<"HH_CLOSED", <<x,o,x,o,x,o,x,o,x,o,x,o,x,o,x,o>> >> >> >>,
       <<"shuffle_03_purdie_like", <<
            <<"KICK", <<x,o,o,o,o,o,x,o,x,o,o,o,o,o,x,o>> >>,
            <<"SNARE", <<o,o,x,o,o,x,o,x,x,o,x,o,o,x,o,x>> >>,
            <<"HH_CLOSED", <<x,o,x,o,x,o,x,o,x,o,x,o,x,o,x,o>> >> >> >>,
       <<"shuffle_04_light_verse", <<
            <<"KICK", <<x,o,o,o,o,o,o,o,x,o,o,o,o,o,o,o>> >>,
            <<"SNARE", <<o,o,o,o,o,o,o,o,x,o,o,o,o,o,x,o>> >>,
            <<"HH_CLOSED", <<x,o,x,o,x,o,x,o,x,o,x,o,x,o,x,o>> >> >> >>,
       <<"shuffle_05_heavy_chorus", <<
            <<"KICK", <<x,o,x,o,o,o,o,o,x,o,x,o,o,o,x,o>> >>,
            <<"SNARE", <<o,o,o,o,o,o,o,o,x,o,o,o,o,o,o,o>> >>,
            <<"HH_CLOSED", <<x,o,x,o,x,o,x,o,x,o,x,o,x,o,x,o>> >>,
            <<"CRASH", <<o,o,o,o,o,o,o,o,x,o,o,o,o,o,o,o>> >> >> >>,
       <<"shuffle_06_tom_fill", <<
            <<"KICK", <<x,o,o,o,o,o,o,o,x,o,o,o,o,o,o,o>> >>,
            <<"SNARE", <<o,o,o,o,o,o,o,o,x,o,o,o,o,o,o,o>> >>,
            <<"HH_CLOSED", <<x,o,x,o,x,o,x,o,x,o,x,o,x,o,x,o>> >>,
            <<"TOM_LOW", <<o,o,o,o,o,o,o,o,o,x,x,o,o,o,o,o>> >>,
            <<"TOM_MID", <<o,o,o,o,o,o,o,o,o,o,x,x,o,o,o,o>> >> >> >>,
       <<"shuffle_07_ride", <<
            <<"KICK", <<x,o,o,o,o,o,o,o,x,o,o,o,o,o,x,o>> >>,
            <<"SNARE", <<o,o,o,o,o,o,o,o,x,o,o,o,o,o,o,o>> >>,
            <<"RIDE", <<x,o,x,o,x,o,x,o,x,o,x,o,x,o,x,o>> >> >> >>,
       <<"shuffle_08_ghost_ladder", <<
            <<"KICK", <<x,o,x,o,o,o,o,o,x,o,x,o,o,o,x,o>> >>,
            <<"SNARE", <<o,o,x,o,x,o,x,x,x,o,x,o,x,o,x,x>> >>,
            <<"HH_CLOSED", <<x,o,x,o,x,o,x,o,x,o,x,o,x,o,x,o>> >> >> >>,
       <<"shuffle_09_straight_kick_shuffled_hat", <<
            <<"KICK", <<x,o,o,o,o,o,x,o,x,o,o,o,o,o,x,o>> >>,
            <<"SNARE", <<o,o,o,o,o,o,o,o,x,o,o,o,o,o,o,o>> >>,
            <<"HH_CLOSED", <<x,o,x,o,x,o,x,o,x,o,x,o,x,o,x,o>> >> >> >>,
       <<"shuffle_10_breakdown", <<
            <<"KICK", <<x,o,o,o,o,o,o,o,o,o,o,o,o,o,o,o>> >>,
            <<"SNARE", <<o,o,x,o,x,o,x,o,x,o,o,o,x,o,x,o>> >>,
            <<"HH_CLOSED", <<x,o,x,o,x,o,x,o,x,o,x,o,x,o,x,o>> >> >> >> >>

----------------------------------------------------------------------------
(* DrumPatternGenerator *)

\* style.lower() holds the word, for the styles of the presets
select_pattern_library(style) ==
    CASE style = "funk" -> funk_patterns
      [] style = "disco" -> disco_patterns
      [] style = "shuffle" -> shuffle_patterns
      [] style = "rock" -> rock_patterns
      [] OTHER -> pop_straight_patterns

pattern_str_to_array(pattern, subdivisions) ==
    SeqOf([i \in 1..subdivisions |-> i <= Len(pattern) /\ LowerChar(pattern[i]) = "x"])

\* drum_class -> array, in the insertion order of the pattern's dict
pattern_dict_to_arrays(pattern_dict, subdivisions) ==
    SeqOf([v \in 1..Len(pattern_dict) |->
        <<pattern_dict[v][1], pattern_str_to_array(pattern_dict[v][2], subdivisions)>>])

CountTrue(a) == Cardinality({i \in 1..Len(a) : a[i]})

\* numpy.flatnonzero: the indices (from 1) of the set steps, ascending
FlatNonZero(a) == SelectSeq(SeqOf([i \in 1..Len(a) |-> i]), LAMBDA i : a[i])

\* random.random() <= num/den
RandomAtMost(st, num, den) == RngNext(st) * den <= num * RngRange

\* Integer square root, by bisection on lo..hi
RECURSIVE IsqrtIn(_, _, _)
IsqrtIn(n, lo, hi) ==
    IF lo >= hi THEN lo
    ELSE LET mid == (lo + hi + 1) \div 2
         IN  IF mid * mid <= n THEN IsqrtIn(n, mid, hi) ELSE IsqrtIn(n, lo, mid - 1)

\* x ** exp in thousandths for x in hundredths, exp = 0.5 + 1.5 * complexity
\* rounded to the nearest half (the floating-point power in fixed point)
PowExp(x100, complexity) ==
    LET Power(whole, half) ==
            CASE whole = 0 -> IF half THEN IsqrtIn(x100 * 10000, 0, 1000) ELSE 1000
              [] whole = 1 -> IF half THEN (x100 * IsqrtIn(x100 * 10000, 0, 1000)) \div 100
                              ELSE x100 * 10
              [] OTHER -> (x100 * x100) \div 10
        Halves(halves) == Power(halves \div 2, halves % 2 = 1)
    IN  Halves((15 + 3 * complexity) \div 10)

\* [name, rnd]: the pattern name chosen and the generator state afterwards
choose_pattern_name(patterns_dict, complexity, rnd) ==
    LET n == Len(patterns_dict)
        hits(i) == SumSeq(SeqOf([v \in 1..Len(patterns_dict[i][2]) |->
                       CountTrue(pattern_str_to_array(patterns_dict[i][2][v][2],
                                                      STEP_RESOLUTION))]))
        Density(h) == IF h > 0 THEN h ELSE 1
        Weight(norm) == ((10 - complexity) * PowExp(100 - norm, complexity)
                         + complexity * PowExp(norm, complexity)) \div 10
        First(hit) == IF hit = {} THEN n ELSE CHOOSE i \in hit : \A j \in hit : i <= j
        \* r = random.random(); the first name with r <= cum
        Draw(weights, total, r1) ==
            [name |-> IF RandomBelow(rnd, complexity, 100)
                      THEN Randrange(r1, n) + 1
                      ELSE First({i \in 1..n :
                               RngNext(r1) * total <= SumSeq(SubSeq(weights, 1, i)) * RngRange}),
             rnd |-> RngNext(r1)]
        Weigh(weights) == Draw(weights, SumSeq(weights), RngNext(rnd))
        Normalise(densities, max_d) ==
            Weigh(SeqOf([i \in 1..n |-> Weight((100 * densities[i]) \div max_d)]))
        Measure(densities) == Normalise(densities, MaxOfSeq(densities))
    IN  Measure(SeqOf([i \in 1..n |-> Density(hits(i))]))

\* a[start:] = False: the end of the slice is not looked at
ClearSliceToEnd(a, start, end) ==
    SeqOf([i \in 1..Len(a) |-> a[i] /\ ~(start < i)])

\* a[start:end] = False, start counted from 0
ClearSlice(a, start, end) ==
    SeqOf([i \in 1..Len(a) |-> a[i] /\ ~(start < i /\ i <= end)])

\* The window _insert_random_pause clears, steps start .. end - 1 counted from
\* 0: [fired, start, end, rnd]
pause_window(arrays, pause_probability, rnd) ==
    LET Place(chosen_len, max_start, r2) ==
            [fired |-> TRUE,
             start |-> IF max_start <= 0 THEN 0 ELSE Randint(r2, 0, max_start),
             end |-> (IF max_start <= 0 THEN 0 ELSE Randint(r2, 0, max_start))
                       + chosen_len,
             rnd |-> IF max_start <= 0 THEN r2 ELSE RngNext(r2)]
        Length(chosen_len, r2) ==
            Place(chosen_len, Max(0, STEP_RESOLUTION - chosen_len), r2)
        \* lengths 1/16, 1/8, 1/4, 1/2 bar with weights 0.05, 0.35, 0.45, 0.15
        Pause(r1) ==
            Length(IF RandomAtMost(r1, 5, 100) THEN Max(1, STEP_RESOLUTION \div 16)
                   ELSE IF RandomAtMost(r1, 40, 100) THEN Max(1, STEP_RESOLUTION \div 8)
                   ELSE IF RandomAtMost(r1, 85, 100) THEN Max(1, STEP_RESOLUTION \div 4)
                   ELSE Max(1, STEP_RESOLUTION \div 2),
                   RngNext(r1))
    IN  IF pause_probability <= 0 \/ arrays = <<>>
        THEN [fired |-> FALSE, start |-> 0, end |-> 0, rnd |-> rnd]
        ELSE IF ~RandomAtMost(rnd, pause_probability, 10)
        THEN [fired |-> FALSE, start |-> 0, end |-> 0, rnd |-> RngNext(rnd)]
        ELSE Pause(RngNext(rnd))

\* [arrays, rnd]
insert_random_pause(arrays, pause_probability, rnd) ==
    LET Cut(w) ==
            [arrays |-> IF w.fired
                        THEN SeqOf([v \in 1..Len(arrays) |->
                                 <<arrays[v][1],
                                   ClearSlice(arrays[v][2], w.start, w.end)>>])
                        ELSE arrays,
             rnd |-> w.rnd]
    IN  Cut(pause_window(arrays, pause_probability, rnd))

\* numpy.random.choice(idxs, size, replace=False): [chosen, np]
RECURSIVE NpChoice(_, _, _, _)
NpChoice(np, idxs, size, chosen) ==
    IF size = 0 \/ idxs = <<>> THEN [chosen |-> chosen, np |-> np]
    ELSE NpChoice(RngNext(np),
                  SelectSeq(idxs, LAMBDA e : e # idxs[Randrange(np, Len(idxs)) + 1]),
                  size - 1,
                  chosen \cup {idxs[Randrange(np, Len(idxs)) + 1]})

\* n_toggles times: idx = random.randrange(len(a)); a[idx] = ~a[idx]
RECURSIVE Toggle(_, _, _)
Toggle(a, n_toggles, rnd) ==
    IF n_toggles = 0 THEN [a |-> a, rnd |-> rnd]
    ELSE Toggle([a EXCEPT ![Randrange(rnd, Len(a)) + 1] = ~@],
                n_toggles - 1, RngNext(rnd))

\* The thinning masks of a dense closed hat
ThinKeeps(mode, i) ==
    CASE mode = "eighths" -> i % 2 = 1
      [] mode = "offbeat" -> i % 2 = 0
      [] OTHER -> <<TRUE, FALSE, TRUE, FALSE, FALSE, TRUE, FALSE, FALSE,
                    TRUE, FALSE, TRUE, FALSE, FALSE, TRUE, FALSE, FALSE>>[((i - 1) % 16) + 1]

\* indices + shift taken modulo the bar: a step pushed past one end comes
\* back at the other
ShiftSteps_wrapping(arr, shift) ==
    SeqOf([i \in 1..Len(arr) |-> arr[((i - 1 - shift) % Len(arr)) + 1]])

\* new_idx = indices + shift, kept where 0 <= new_idx < len(a)
ShiftSteps(arr, shift) ==
    SeqOf([i \in 1..Len(arr) |->
        i - shift >= 1 /\ i - shift <= Len(arr) /\ arr[i - shift]])

\* 1) the shift of one voice: [a, rnd, shift]
shift_voice(arr, complexity, rnd) ==
    LET Shifted(do_shift, shift) ==
            [a |-> IF shift = 0 THEN arr ELSE ShiftSteps(arr, shift),
             rnd |-> IF do_shift THEN RngNext(RngNext(rnd)) ELSE RngNext(rnd),
             shift |-> shift]
        Shift(do_shift) ==
            Shifted(do_shift, IF do_shift THEN Randint(RngNext(rnd), -2, 2) ELSE 0)
    IN  Shift(RandomBelow(rnd, 4 * complexity, 100) /\ CountTrue(arr) > 0)

\* max(1, int(len(a) * 0.1 * (0.5 + complexity)))
NToggles(len, complexity) == Max(1, (len * (5 + complexity)) \div 100)

\* 2) the toggles of one voice: [a, rnd, n_toggles], n_toggles = 0 when the
\* mutation does not fire
toggle_voice(a, complexity, rnd) ==
    LET Toggled(tg, n_toggles) == [a |-> tg.a, rnd |-> tg.rnd, n_toggles |-> n_toggles]
    IN  IF RandomBelow(rnd, 6 * complexity, 100)
        THEN Toggled(Toggle(a, NToggles(Len(a), complexity), RngNext(rnd)),
                     NToggles(Len(a), complexity))
        ELSE [a |-> a, rnd |-> RngNext(rnd), n_toggles |-> 0]

\* The dense closed hat left as it is
thin_closed_hat_unthinned(drum_class, a, rnd) ==
    [a |-> a, rnd |-> rnd, mode |-> ""]

\* 3a) the thinning of a dense closed hat: [a, rnd, mode], mode = "" when
\* the voice is left as it is
thin_closed_hat(drum_class, a, rnd) ==
    LET Thinned(mode) ==
            [a |-> SeqOf([i \in 1..Len(a) |-> a[i] /\ ThinKeeps(mode, i)]),
             rnd |-> RngNext(rnd), mode |-> mode]
    IN  IF drum_class = "HH_CLOSED" /\ CountTrue(a) * 10 > 7 * Len(a)
        THEN Thinned(RandomChoice(rnd, <<"eighths", "offbeat", "broken">>))
        ELSE [a |-> a, rnd |-> rnd, mode |-> ""]

\* 3b) the opening of closed hats, the steps drawn on numpy's generator:
\* [a, a_open, rnd, np]; a_open = <<>> when no hat was opened
open_closed_hat(drum_class, a, complexity, rnd, np) ==
    LET Opened(do_open, pick, r4) ==
            [a |-> SeqOf([i \in 1..Len(a) |-> a[i] /\ i \notin pick.chosen]),
             a_open |-> IF do_open THEN SeqOf([i \in 1..Len(a) |-> i \in pick.chosen])
                        ELSE <<>>,
             rnd |-> r4, np |-> pick.np]
        Pick(do_open, idxs, r4) ==
            Opened(do_open,
                   IF do_open
                   THEN NpChoice(np, idxs, Max(1, (Len(idxs) * 2 * complexity) \div 100), {})
                   ELSE [chosen |-> {}, np |-> np],
                   r4)
        Open(may_open) ==
            Pick(may_open /\ RandomBelow(rnd, 3 * complexity, 100),
                 FlatNonZero(a), IF may_open THEN RngNext(rnd) ELSE rnd)
    IN  Open(drum_class = "HH_CLOSED" /\ complexity > 5 /\ CountTrue(a) > 0)

\* The loop body of _mutate_bar_arrays for one voice, complexity > 0:
\* [a, a_open, rnd, np]; a_open = <<>> when no hat was opened
MutateVoice(drum_class, arr, complexity, rnd, np) ==
    LET Open(th) == open_closed_hat(drum_class, th.a, complexity, th.rnd, np)
        Thin(tg) == Open(thin_closed_hat(drum_class, tg.a, tg.rnd))
        Toggles(sh) == Thin(toggle_voice(sh.a, complexity, sh.rnd))
    IN  Toggles(shift_voice(arr, complexity, rnd))

\* hh_open_merge |= a_open, <<>> standing for None
MergeOpen(hh_open_merge, a_open) ==
    IF a_open = <<>> THEN hh_open_merge
    ELSE IF hh_open_merge = <<>> THEN a_open
    ELSE SeqOf([i \in 1..Len(a_open) |-> hh_open_merge[i] \/ a_open[i]])

\* One pass of _mutate_bar_arrays's loop over the voices; acc = [mutated,
\* hh_open_merge, rnd, np], voice = (drum_class, arr)
MutateVoices(acc, voice, complexity) ==
    LET Step(m) ==
            [mutated |-> Append(acc.mutated, <<voice[1], m.a>>),
             hh_open_merge |-> MergeOpen(acc.hh_open_merge, m.a_open),
             rnd |-> m.rnd, np |-> m.np]
    IN  Step(MutateVoice(voice[1], voice[2], complexity, acc.rnd, acc.np))

\* mutated["HH_OPEN"] = hh_open_merge, in the place of an existing open hat
MergeIntoArrays_overwriting(mutated, hh_open_merge) ==
    IF hh_open_merge = <<>> THEN mutated
    ELSE IF ~\E v \in 1..Len(mutated) : mutated[v][1] = "HH_OPEN"
    THEN Append(mutated, <<"HH_OPEN", hh_open_merge>>)
    ELSE SeqOf([v \in 1..Len(mutated) |->
             IF mutated[v][1] = "HH_OPEN" THEN <<"HH_OPEN", hh_open_merge>>
             ELSE mutated[v]])

\* mutated["HH_OPEN"] = hh_open_merge, or-ed into an existing open hat
MergeIntoArrays(mutated, hh_open_merge) ==
    IF hh_open_merge = <<>> THEN mutated
    ELSE IF ~\E v \in 1..Len(mutated) : mutated[v][1] = "HH_OPEN"
    THEN Append(mutated, <<"HH_OPEN", hh_open_merge>>)
    ELSE SeqOf([v \in 1..Len(mutated) |->
             IF mutated[v][1] = "HH_OPEN"
             THEN <<"HH_OPEN", SeqOf([i \in 1..Len(hh_open_merge) |->
                                   mutated[v][2][i] \/ hh_open_merge[i]])>>
             ELSE mutated[v]])

\* [arrays, rnd, np]
mutate_bar_arrays(arrays, complexity, pause_probability, rnd, np) ==
    LET Paused(p, np1) == [arrays |-> p.arrays, rnd |-> p.rnd, np |-> np1]
        Mutated(acc) ==
            Paused(insert_random_pause(MergeIntoArrays(acc.mutated, acc.hh_open_merge),
                                       pause_probability, acc.rnd),
                   acc.np)
    IN  IF complexity <= 0
        THEN Paused(insert_random_pause(arrays, pause_probability, rnd), np)
        ELSE Mutated(ForEach(LAMBDA acc, voice : MutateVoices(acc, voice, complexity),
                             [mutated |-> <<>>, hh_open_merge |-> <<>>,
                              rnd |-> rnd, np |-> np],
                             arrays))

DrumEvent(time_sec, drum_class, velocity) ==
    [time_sec |-> time_sec, drum_class |-> drum_class, velocity |-> velocity]

base_velocity(drum_class) ==
    CASE drum_class = "KICK" -> 100 [] drum_class = "SNARE" -> 95
      [] drum_class = "SIDESTICK" -> 85 [] drum_class = "HH_CLOSED" -> 80
      [] drum_class = "HH_OPEN" -> 85 [] drum_class = "TOM_LOW" -> 100
      [] drum_class = "TOM_MID" -> 100 [] drum_class = "TOM_HIGH" -> 100
      [] drum_class = "RIDE" -> 80 [] drum_class = "CRASH" -> 110
      [] OTHER -> 90

\* The events of one voice's set steps
VoiceEvents(drum_class, steps, bar_start, step_duration) ==
    SeqOf([k \in 1..Len(steps) |->
        DrumEvent(bar_start + (steps[k] - 1) * step_duration, drum_class,
                  base_velocity(drum_class))])

arrays_to_events(arrays, bar_start, seconds_per_bar) ==
    ForEach(LAMBDA events, voice :
                events \o VoiceEvents(voice[1], FlatNonZero(voice[2]), bar_start,
                                      seconds_per_bar \div STEP_RESOLUTION),
            <<>>, arrays)

\* complexity ** 1.2 in thousandths, for complexity 0.0, 0.1, .. 1.0
Pow12 == <<0, 63, 145, 236, 333, 435, 542, 652, 765, 881, 1000>>

\* One pass of _add_ghostnotes_for_bar's loop, idx counted from 0;
\* acc = [events, rnd]; base_p in ten-thousandths
GhostStep(acc, idx, snare_steps, base_p, velocity, bar_start, step_duration) ==
    LET Step(draws) ==
            [events |-> IF draws /\ RandomBelow(acc.rnd, base_p, 10000)
                        THEN Append(acc.events,
                                 DrumEvent(bar_start + idx * step_duration,
                                           "SNARE", velocity))
                        ELSE acc.events,
             rnd |-> IF draws THEN RngNext(acc.rnd) ELSE acc.rnd]
    IN  Step(/\ ~snare_steps[idx + 1]
             /\ \E j \in Max(0, idx - 2)..Min(STEP_RESOLUTION - 1, idx + 2) :
                    snare_steps[j + 1])

\* snare_steps = <<>> stands for None; [events, rnd]
\* Ghost notes whatever the complexity
add_ghostnotes_ungated(self, snare_steps, bar_start, seconds_per_bar, rnd) ==
    IF self.ghostnote_probability <= 0 \/ snare_steps = <<>>
    THEN [events |-> <<>>, rnd |-> rnd]
    ELSE ForEach(LAMBDA acc, idx :
                     GhostStep(acc, idx, snare_steps,
                               (self.ghostnote_probability
                                  * (2000 + 8 * Pow12[self.complexity + 1])) \div 10,
                               IF self.complexity < 8 THEN 45 ELSE 50,
                               bar_start, seconds_per_bar \div STEP_RESOLUTION),
                 [events |-> <<>>, rnd |-> rnd], Range(STEP_RESOLUTION))

add_ghostnotes_for_bar(self, snare_steps, bar_start, seconds_per_bar, rnd) ==
    IF self.ghostnote_probability <= 0 \/ self.complexity <= 2
       \/ snare_steps = <<>>
    THEN [events |-> <<>>, rnd |-> rnd]
    ELSE ForEach(LAMBDA acc, idx :
                     GhostStep(acc, idx, snare_steps,
                               (self.ghostnote_probability
                                  * (2000 + 8 * Pow12[self.complexity + 1])) \div 10,
                               IF self.complexity < 8 THEN 45 ELSE 50,
                               bar_start, seconds_per_bar \div STEP_RESOLUTION),
                 [events |-> <<>>, rnd |-> rnd], Range(STEP_RESOLUTION))

\* arrays.get(drum_class)
ArraysGet(arrays, drum_class) ==
    IF \E v \in 1..Len(arrays) : arrays[v][1] = drum_class
    THEN arrays[CHOOSE v \in 1..Len(arrays) : arrays[v][1] = drum_class][2]
    ELSE <<>>

\* One pass of generate_drum_track's loop: g = [events, rnd, np] with rnd the
\* random module's generator and np numpy's
DrumBar(g, bar_index, song_specification, self) ==
    LET Collect(bar_events, ghost, np1) ==
            [events |-> g.events \o bar_events \o ghost.events,
             rnd |-> ghost.rnd, np |-> np1]
        Ghosts(m, bar_start, seconds_per_bar) ==
            Collect(arrays_to_events(m.arrays, bar_start, seconds_per_bar),
                    add_ghostnotes_for_bar(self, ArraysGet(m.arrays, "SNARE"),
                                           bar_start, seconds_per_bar, m.rnd),
                    m.np)
        Mutate(patterns_dict, chosen, seconds_per_bar) ==
            Ghosts(mutate_bar_arrays(
                       pattern_dict_to_arrays(patterns_dict[chosen.name][2],
                                              STEP_RESOLUTION),
                       self.complexity, self.pause_probability, chosen.rnd, g.np),
                   bar_index * seconds_per_bar, seconds_per_bar)
        Choose(patterns_dict) ==
            Mutate(patterns_dict,
                   choose_pattern_name(patterns_dict, self.complexity, g.rnd),
                   compute_timing(song_specification).seconds_per_bar)
    IN  Choose(select_pattern_library(song_specification.style))

\* [events, rnd, np]: the DrumEvent list and the two process-wide generators
\* as the call leaves them
generate_drum_track(song_specification, self, rnd, np) ==
    ForEach(LAMBDA g, bar_index : DrumBar(g, bar_index, song_specification, self),
            [events |-> <<>>, rnd |-> rnd, np |-> np],
            Range(song_specification.number_of_bars))

----------------------------------------------------------------------------
(* The arrays of DrumPatternGenerator as objects: a store is the sequence of *)
(* the numpy arrays allocated so far, a reference the index of one of them,  *)
(* and a bar's arrays the sequence of <<drum_class, reference>>              *)

\* A name bound to the array itself instead of to a copy of it
ArrayAlias(heap, ref) == [heap |-> heap, ref |-> ref]

\* arr.copy(): a new array with the contents of arr
ArrayCopy(heap, ref) == [heap |-> Append(heap, heap[ref]), ref |-> Len(heap) + 1]

\* for drum_class, arr in arrays.items(): a = arr.copy(); writes into a that
\* leave it holding values[v]; result[drum_class] = a
CopyAndWrite(heap, arrays, values) ==
    LET Written(acc, v, c) ==
            [heap |-> [c.heap EXCEPT ![c.ref] = values[v][2]],
             arrays |-> Append(acc.arrays, <<arrays[v][1], c.ref>>)]
    IN  ForEach(LAMBDA acc, v : Written(acc, v, ArrayCopy(acc.heap, arrays[v][2])),
                [heap |-> heap, arrays |-> <<>>],
                SeqOf([v \in 1..Len(arrays) |-> v]))

\* _insert_random_pause on the store: [heap, arrays, rnd]. The early returns
\* hand back the dict they were given
insert_random_pause_in_store(heap, arrays, pause_probability, rnd) ==
    LET Paused(st, r) == [heap |-> st.heap, arrays |-> st.arrays, rnd |-> r]
        Pause(res) == Paused(CopyAndWrite(heap, arrays, res.arrays), res.rnd)
    IN  IF pause_probability <= 0 \/ arrays = <<>>
        THEN [heap |-> heap, arrays |-> arrays, rnd |-> rnd]
        ELSE IF ~RandomAtMost(rnd, pause_probability, 10)
        THEN [heap |-> heap, arrays |-> arrays, rnd |-> RngNext(rnd)]
        ELSE Pause(insert_random_pause(
                       SeqOf([v \in 1..Len(arrays) |->
                           <<arrays[v][1], heap[arrays[v][2]]>>]),
                       pause_probability, rnd))

\* _mutate_bar_arrays on the store: [heap, arrays, rnd, np]
mutate_bar_arrays_in_store(heap, arrays, complexity, pause_probability, rnd, np) ==
    LET values == SeqOf([v \in 1..Len(arrays) |-> <<arrays[v][1], heap[arrays[v][2]]>>])
        Result(p, np1) == [heap |-> p.heap, arrays |-> p.arrays, rnd |-> p.rnd, np |-> np1]
        \* mutated["HH_OPEN"] = hh_open_merge, or existing | hh_open_merge: in
        \* both cases a new array
        Opened(st, hh_open) ==
            IF \E v \in 1..Len(st.arrays) : st.arrays[v][1] = "HH_OPEN"
            THEN [heap |-> Append(st.heap, hh_open),
                  arrays |-> SeqOf([v \in 1..Len(st.arrays) |->
                                IF st.arrays[v][1] = "HH_OPEN"
                                THEN <<"HH_OPEN", Len(st.heap) + 1>>
                                ELSE st.arrays[v]])]
            ELSE [heap |-> Append(st.heap, hh_open),
                  arrays |-> Append(st.arrays, <<"HH_OPEN", Len(st.heap) + 1>>)]
        Merged(st, acc, merged) ==
            IF acc.hh_open_merge = <<>> THEN st
            ELSE Opened(st, merged[CHOOSE v \in 1..Len(merged) :
                                       merged[v][1] = "HH_OPEN"][2])
        Mutated(acc) ==
            LET st == Merged(CopyAndWrite(heap, arrays, acc.mutated), acc,
                             MergeIntoArrays(acc.mutated, acc.hh_open_merge))
            IN  Result(insert_random_pause_in_store(st.heap, st.arrays,
                                                    pause_probability, acc.rnd),
                       acc.np)
        Base(st) ==
            Result(insert_random_pause_in_store(st.heap, st.arrays,
                                                pause_probability, rnd), np)
    IN  IF complexity <= 0
        THEN Base(CopyAndWrite(heap, arrays, values))
        ELSE Mutated(ForEach(LAMBDA acc, voice : MutateVoices(acc, voice, complexity),
                             [mutated |-> <<>>, hh_open_merge |-> <<>>,
                              rnd |-> rnd, np |-> np],
                             values))

\* One bar of generate_fill: [steps, events, rnd]
FillBar(acc, local_bar, start_bar, seconds_per_bar, complexity) ==
    LET tom_cycle == <<"TOM_LOW", "TOM_MID", "TOM_HIGH">>
        Events(t) ==
            [steps |-> Append(acc.steps, t.a),
             events |-> acc.events \o
                 SeqOf([k \in 1..Len(FlatNonZero(t.a)) |->
                     DrumEvent((start_bar + local_bar) * seconds_per_bar
                                   + (FlatNonZero(t.a)[k] - 1)
                                       * (seconds_per_bar \div STEP_RESOLUTION),
                               tom_cycle[((local_bar + FlatNonZero(t.a)[k] - 1) % 3) + 1],
                               100)]),
             rnd |-> t.rnd]
        Vary(steps) ==
            Events(IF complexity > 3
                   THEN Toggle(steps, (STEP_RESOLUTION * complexity) \div 100, acc.rnd)
                   ELSE [a |-> steps, rnd |-> acc.rnd])
        Spaced(spacing) ==
            Vary(SeqOf([i \in 1..STEP_RESOLUTION |-> (i - 1) % spacing = 0]))
    IN  Spaced(IF complexity < 6 THEN 2 ELSE 1)

\* generate_fill with the crash on the first beat of the fill's last bar
generate_fill_crash_inside(song_specification, self, start_bar, number_of_bars, rnd) ==
    LET Crash(acc, seconds_per_bar) ==
            [events |-> Append(acc.events,
                               DrumEvent((start_bar + number_of_bars - 1) * seconds_per_bar,
                                         "CRASH", 110)),
             rnd |-> acc.rnd, steps |-> acc.steps]
        Bars(seconds_per_bar) ==
            Crash(ForEach(LAMBDA acc, local_bar :
                              FillBar(acc, local_bar, start_bar, seconds_per_bar,
                                      self.complexity),
                          [steps |-> <<>>, events |-> <<>>, rnd |-> rnd],
                          Range(number_of_bars)),
                  seconds_per_bar)
    IN  Bars(compute_timing(song_specification).seconds_per_bar)

\* [events, rnd, steps]: steps are the arrays the call allocated, one per bar
generate_fill(song_specification, self, start_bar, number_of_bars, rnd) ==
    LET Crash(acc, seconds_per_bar) ==
            [events |-> Append(acc.events,
                               DrumEvent((start_bar + number_of_bars) * seconds_per_bar,
                                         "CRASH", 110)),
             rnd |-> acc.rnd, steps |-> acc.steps]
        Bars(seconds_per_bar) ==
            Crash(ForEach(LAMBDA acc, local_bar :
                              FillBar(acc, local_bar, start_bar, seconds_per_bar,
                                      self.complexity),
                          [steps |-> <<>>, events |-> <<>>, rnd |-> rnd],
                          Range(number_of_bars)),
                  seconds_per_bar)
    IN  Bars(compute_timing(song_specification).seconds_per_bar)

----------------------------------------------------------------------------
(* The per-song flow of DatasetBuilder.build_dataset, run by two processes *)

get_instruments_by_role(band_configuration, role) ==
    SelectSeq(band_configuration, LAMBDA i : i.role = role)

SongSpecification(tempo_bpm, time_signature, number_of_bars, key, style, band_configuration, random_seed) ==
    [tempo_bpm |-> tempo_bpm, time_signature |-> time_signature,
     number_of_bars |-> number_of_bars, key |-> key, style |-> style,
     band_configuration |-> band_configuration, random_seed |-> random_seed]

MaxBars == 2

MaxSeed == 2

Runs == {1, 2}

\* (style, key, tempo, time signature) of the songs studied
SongKinds ==
    { <<"pop-straight", "C major", 120, <<4, 4>> >>,
      <<"funk", "E minor", 100, <<4, 4>> >>,
      <<"rock", "G major", 120, <<3, 4>> >>,
      <<"disco", "D minor", 120, <<4, 4>> >>,
      <<"shuffle", "F major", 100, <<3, 4>> >> }

\* Bands as choose_random_band builds them (a bass, a chord instrument, then
\* the extras) and as the single-example script does (instruments in table order)
Bands ==
    { <<create_instruments[11], create_instruments[1]>>,
      <<create_instruments[13], create_instruments[6],
        create_instruments[15], create_instruments[16]>>,
      <<create_instruments[1], create_instruments[2], create_instruments[5],
        create_instruments[12], create_instruments[17]>> }

\* (complexity, ghostnote_probability, pause_probability) of the presets, and
\* the generator without complexity
GeneratorSettings ==
    { [complexity |-> 0, ghostnote_probability |-> 0, pause_probability |-> 5],
      [complexity |-> 3, ghostnote_probability |-> 2, pause_probability |-> 5],
      [complexity |-> 6, ghostnote_probability |-> 3, pause_probability |-> 4],
      [complexity |-> 9, ghostnote_probability |-> 5, pause_probability |-> 3] }

Songs ==
    { SongSpecification(k[3], k[4], bars, k[2], k[1], band, seed) :
          k \in SongKinds, bars \in 1..MaxBars, band \in Bands, seed \in 1..MaxSeed }

\* States an unseeded process-wide generator can start in
BootStates == {0, 1}

\* The channels instrument b of the band can be moved to in process 2
OtherChannels == {0, 15}

Scenarios ==
    { [kind |-> "same"], [kind |-> "after"] }
    \cup { [kind |-> "channel", b |-> b, channel |-> c] :
               b \in 1..5, c \in OtherChannels }

\* The song process 2 builds before the song under study: the song of the
\* previous global_song_index
Earlier(s) == [s EXCEPT !.random_seed = @ - 1]

Rechannel(s, b, channel) ==
    [s EXCEPT !.band_configuration[b].channel = channel]

Init ==
    /\ song \in Songs
    /\ generator \in GeneratorSettings
    /\ scenario \in Scenarios
    /\ scenario.kind = "channel" =>
           /\ scenario.b <= Len(song.band_configuration)
           /\ scenario.channel # song.band_configuration[scenario.b].channel
           /\ generator.complexity = 6
    /\ plan = [r \in Runs |->
                  IF r = 2 /\ scenario.kind = "after" THEN <<Earlier(song), song>>
                  ELSE IF r = 2 /\ scenario.kind = "channel"
                  THEN <<Rechannel(song, scenario.b, scenario.channel)>>
                  ELSE <<song>>]
    /\ pc = [r \in Runs |-> "boot"]
    /\ boot = [r \in Runs |-> 0]
    /\ cur = [r \in Runs |-> song]
    /\ pyRnd = [r \in Runs |-> 0]
    /\ npRnd = [r \in Runs |-> 0]
    /\ drumEvents = [r \in Runs |-> <<>>]
    /\ tracks = [r \in Runs |-> <<>>]
    /\ fn = [op |-> "none"]

\* Process 2 runs after process 1 has finished
Turn(r) == r = 1 \/ pc[1] = "done"

\* The interpreter starts: neither process-wide generator has been seeded by
\* the program. Process 2 starts as process 1 did unless the scenario studies
\* two independent runs.
StartProcess(r) ==
    /\ Turn(r) /\ pc[r] = "boot"
    /\ \E np \in BootStates, py \in BootStates :
           /\ (r = 2 /\ scenario.kind # "same") => np = boot[1]
           /\ boot' = [boot EXCEPT ![r] = np]
           /\ npRnd' = [npRnd EXCEPT ![r] = np]
           /\ pyRnd' = [pyRnd EXCEPT ![r] = py]
    /\ pc' = [pc EXCEPT ![r] = "create"]
    /\ UNCHANGED <<song, generator, scenario, plan, cur, drumEvents, tracks, fn>>

\* _create_song_specification_for_preset: builds the SongSpecification and
\* seeds the random module with its random_seed
create_song_specification_for_preset(r) ==
    /\ Turn(r) /\ pc[r] = "create"
    /\ cur' = [cur EXCEPT ![r] = Head(plan[r])]
    /\ pyRnd' = [pyRnd EXCEPT ![r] = RngSeed(Head(plan[r]).random_seed)]
    /\ drumEvents' = [drumEvents EXCEPT ![r] = <<>>]
    /\ tracks' = [tracks EXCEPT ![r] = <<>>]
    /\ pc' = [pc EXCEPT ![r] = "drums"]
    /\ UNCHANGED <<song, generator, scenario, boot, plan, npRnd, fn>>

\* _generate_drum_and_note_events, first statement
GenerateDrumTrack(r) ==
    /\ Turn(r) /\ pc[r] = "drums"
    /\ LET Store(g) ==
               /\ drumEvents' = [drumEvents EXCEPT ![r] = g.events]
               /\ pyRnd' = [pyRnd EXCEPT ![r] = g.rnd]
               /\ npRnd' = [npRnd EXCEPT ![r] = g.np]
       IN  Store(generate_drum_track(cur[r], generator, pyRnd[r], npRnd[r]))
    /\ pc' = [pc EXCEPT ![r] = "chords"]
    /\ UNCHANGED <<song, generator, scenario, boot, plan, cur, tracks, fn>>

\* One track [instrument, seed, events] per instrument, by track(instrument)
TracksOf(instruments, track(_)) ==
    LET Track(instrument, t) ==
            [instrument |-> instrument, seed |-> t.seed, events |-> t.events]
    IN  SeqOf([i \in 1..Len(instruments) |->
            Track(instruments[i], track(instruments[i]))])

\* _generate_drum_and_note_events, the loop over the chord instruments
GenerateChordTracks(r) ==
    /\ Turn(r) /\ pc[r] = "chords"
    /\ LET track(i) == generate_chord_track(cur[r], i)
       IN  tracks' = [tracks EXCEPT ![r] =
               @ \o TracksOf(get_instruments_by_role(cur[r].band_configuration,
                                                     "chords"), track)]
    /\ pc' = [pc EXCEPT ![r] = "bass"]
    /\ UNCHANGED <<song, generator, scenario, boot, plan, cur, pyRnd, npRnd,
                   drumEvents, fn>>

\* _generate_drum_and_note_events, the loop over the bass instruments
GenerateBassTracks(r) ==
    /\ Turn(r) /\ pc[r] = "bass"
    /\ LET track(i) == generate_bass_track(cur[r], i)
       IN  tracks' = [tracks EXCEPT ![r] =
               @ \o TracksOf(get_instruments_by_role(cur[r].band_configuration,
                                                     "bass"), track)]
    /\ pc' = [pc EXCEPT ![r] = "pads"]
    /\ UNCHANGED <<song, generator, scenario, boot, plan, cur, pyRnd, npRnd,
                   drumEvents, fn>>

\* _generate_drum_and_note_events, the pad instruments
GeneratePadTracks(r) ==
    /\ Turn(r) /\ pc[r] = "pads"
    /\ tracks' = [tracks EXCEPT ![r] =
           @ \o generate_pad_or_lead_tracks(cur[r],
                    get_instruments_by_role(cur[r].band_configuration, "pad")).tracks]
    /\ pc' = [pc EXCEPT ![r] = "built"]
    /\ UNCHANGED <<song, generator, scenario, boot, plan, cur, pyRnd, npRnd,
                   drumEvents, fn>>

\* build_dataset: the rest of the loop body, then the next song
NextSong(r) ==
    /\ Turn(r) /\ pc[r] = "built"
    /\ plan' = [plan EXCEPT ![r] = Tail(@)]
    /\ pc' = [pc EXCEPT ![r] = IF Tail(plan[r]) = <<>> THEN "done" ELSE "create"]
    /\ UNCHANGED <<song, generator, scenario, boot, cur, pyRnd, npRnd,
                   drumEvents, tracks, fn>>

Next ==
    \E r \in Runs :
        \/ StartProcess(r)
        \/ create_song_specification_for_preset(r)
        \/ GenerateDrumTrack(r)
        \/ GenerateChordTracks(r)
        \/ GenerateBassTracks(r)
        \/ GeneratePadTracks(r)
        \/ NextSong(r)

Spec == Init /\ [][Next]_vars

----------------------------------------------------------------------------
(* Properties of the per-song flow (specification Spec) *)

BothDone == pc[1] = "done" /\ pc[2] = "done"

\* The NoteEvent as the program stores it (the renderer's inputs left out)
AsNoteEvent(e) ==
    [start_time |-> e.start_time, end_time |-> e.end_time, pitch |-> e.pitch,
     velocity |-> e.velocity, channel |-> e.channel]

NoteEventsOf(track) ==
    SeqOf([k \in 1..Len(track.events) |-> AsNoteEvent(track.events[k])])

\* note_events of process r: the tracks' events in the order they were extended
RECURSIVE NoteEventList(_)
NoteEventList(ts) ==
    IF ts = <<>> THEN <<>> ELSE NoteEventsOf(Head(ts)) \o NoteEventList(Tail(ts))

\* C1 (Determinism): two independent runs of the per-song flow on the same
\* SongSpecification with the same generator parameters end with identical
\* DrumEvent lists and identical NoteEvent lists, whatever the complexity.
C1_Determinism ==
    (scenario.kind = "same" /\ BothDone) =>
        /\ drumEvents[1] = drumEvents[2]
        /\ NoteEventList(tracks[1]) = NoteEventList(tracks[2])

\* C2 (No ambient randomness): the events of a song are the same when the
\* process built another song before it as when it builds the song alone.
C2_OrderIndependence ==
    (scenario.kind = "after" /\ BothDone) =>
        /\ drumEvents[2] = drumEvents[1]
        /\ NoteEventList(tracks[2]) = NoteEventList(tracks[1])

\* Instrument B of the "channel" scenario, as process 1 has it
MovedInstrument == song.band_configuration[scenario.b]

\* C3 (Seed independence): when process 2 differs from process 1 only in the
\* channel of instrument B, every other instrument A that is on another
\* channel (than B's old and new one) gets the same NoteEvent stream in both.
C3_SeedIndependence ==
    (scenario.kind = "channel" /\ BothDone) =>
        \A i \in 1..Len(tracks[1]) :
            ( /\ tracks[1][i].instrument # MovedInstrument
              /\ tracks[1][i].instrument.channel # MovedInstrument.channel
              /\ tracks[1][i].instrument.channel # scenario.channel )
            => /\ i <= Len(tracks[2])
               /\ tracks[2][i].instrument = tracks[1][i].instrument
               /\ NoteEventsOf(tracks[2][i]) = NoteEventsOf(tracks[1][i])

\* Both processes are done, moving B changed B's own notes, and an instrument
\* A on another channel has notes to compare
C3_Witness ==
    /\ scenario.kind = "channel" /\ BothDone
    /\ \E j \in 1..Len(tracks[1]) :
           /\ tracks[1][j].instrument = MovedInstrument
           /\ tracks[2][j].events # tracks[1][j].events
    /\ \E i \in 1..Len(tracks[1]) :
           /\ tracks[1][i].instrument # MovedInstrument
           /\ tracks[1][i].instrument.channel # MovedInstrument.channel
           /\ tracks[1][i].instrument.channel # scenario.channel
           /\ tracks[1][i].events # <<>>

\* C4 (Distinct random streams): in a finished song any two different
\* instrument tracks were driven by different seed values.
C4_DistinctSeeds ==
    \A r \in Runs :
        pc[r] = "done" =>
            \A i, j \in 1..Len(tracks[r]) :
                i # j => tracks[r][i].seed # tracks[r][j].seed

\* The small epsilon of the timing invariant: 10 ms
Epsilon == UnitsPerSecond \div 100

OnsetInSong(t, s) == 0 <= t /\ t < get_duration_seconds(s) + Epsilon

\* C5 (Timing): every DrumEvent and every NoteEvent of a finished song starts
\* at 0 <= time < song.get_duration_seconds() + epsilon.
C5_Timing ==
    \A r \in Runs :
        pc[r] = "done" =>
            /\ \A k \in 1..Len(drumEvents[r]) :
                   OnsetInSong(drumEvents[r][k].time_sec, cur[r])
            /\ \A i \in 1..Len(tracks[r]) :
                   \A k \in 1..Len(tracks[r][i].events) :
                       OnsetInSong(tracks[r][i].events[k].start_time, cur[r])

----------------------------------------------------------------------------
(* DrumMapping and MidiSongBuilder.build_pretty_midi *)

\* DatasetBuilder.create_drum_mapping
create_drum_mapping ==
    [note_to_class |->
        [n \in {36, 38, 40, 37, 42, 44, 46, 22, 26, 43, 45, 47, 48, 50, 49, 51, 53} |->
            CASE n = 36 -> "KICK"
              [] n \in {38, 40} -> "SNARE"
              [] n = 37 -> "SIDESTICK"
              [] n \in {42, 44, 22} -> "HH_CLOSED"
              [] n \in {46, 26} -> "HH_OPEN"
              [] n \in {43, 45} -> "TOM_LOW"
              [] n \in {47, 48} -> "TOM_MID"
              [] n = 50 -> "TOM_HIGH"
              [] n = 49 -> "CRASH"
              [] n \in {51, 53} -> "RIDE"],
     class_to_notes |->
        [c \in {"KICK", "SNARE", "SIDESTICK", "HH_CLOSED", "HH_OPEN", "TOM_LOW",
                "TOM_MID", "TOM_HIGH", "CRASH", "RIDE"} |->
            CASE c = "KICK" -> <<36>>
              [] c = "SNARE" -> <<38, 40>>
              [] c = "SIDESTICK" -> <<37>>
              [] c = "HH_CLOSED" -> <<42, 44, 22>>
              [] c = "HH_OPEN" -> <<46, 26>>
              [] c = "TOM_LOW" -> <<43, 45>>
              [] c = "TOM_MID" -> <<47, 48>>
              [] c = "TOM_HIGH" -> <<50>>
              [] c = "CRASH" -> <<49>>
              [] c = "RIDE" -> <<51, 53>>],
     core_classes |->
        <<"KICK", "SNARE", "SIDESTICK", "HH_CLOSED", "HH_OPEN", "TOM_LOW",
          "TOM_MID", "TOM_HIGH", "CRASH", "RIDE">>]

\* The note looked up as a note number counted from one
map_note_to_class_from_one(self, note) ==
    IF note - 1 \in DOMAIN self.note_to_class
    THEN [is_none |-> FALSE, drum_class |-> self.note_to_class[note - 1]]
    ELSE [is_none |-> TRUE]

\* self.note_to_class.get(note); [is_none |-> TRUE] stands for None
map_note_to_class(self, note) ==
    IF note \in DOMAIN self.note_to_class
    THEN [is_none |-> FALSE, drum_class |-> self.note_to_class[note]]
    ELSE [is_none |-> TRUE]

\* note in self.note_to_class
is_supported_note(self, note) == note \in DOMAIN self.note_to_class

\* The last note of the class instead of the first
get_last_note_for_class(self, drum_class) ==
    IF drum_class \notin DOMAIN self.class_to_notes THEN [ok |-> FALSE]
    ELSE IF self.class_to_notes[drum_class] = <<>> THEN [ok |-> FALSE]
    ELSE [ok |-> TRUE,
          note |-> self.class_to_notes[drum_class][Len(self.class_to_notes[drum_class])]]

\* [ok |-> FALSE] stands for the KeyError the code raises
get_primary_note_for_class(self, drum_class) ==
    IF drum_class \notin DOMAIN self.class_to_notes THEN [ok |-> FALSE]
    ELSE IF self.class_to_notes[drum_class] = <<>> THEN [ok |-> FALSE]
    ELSE [ok |-> TRUE, note |-> self.class_to_notes[drum_class][1]]

\* sorted(drum_events, key=lambda e: e.time_sec): one insertion of the stable
\* sort, ev goes behind the events that are not later than it
InsertByTime(sorted, ev) ==
    LET Place(k) == SubSeq(sorted, 1, k) \o <<ev>> \o SubSeq(sorted, k + 1, Len(sorted))
    IN  Place(Cardinality({i \in 1..Len(sorted) : sorted[i].time_sec <= ev.time_sec}))

SortedByTime(drum_events) == ForEach(InsertByTime, <<>>, drum_events)

\* f"Channel_{ch}"
ChannelName(ch) ==
    << "Channel_0", "Channel_1", "Channel_2", "Channel_3", "Channel_4",
       "Channel_5", "Channel_6", "Channel_7", "Channel_8", "Channel_9",
       "Channel_10", "Channel_11", "Channel_12", "Channel_13", "Channel_14",
       "Channel_15" >>[ch + 1]

\* A pretty_midi.Instrument. channel is the key under which build_pretty_midi
\* holds the instrument in channel_to_instrument (the drum instrument has none).
PmInstrument(program, is_drum, name, channel) ==
    [program |-> program, is_drum |-> is_drum, name |-> name, channel |-> channel,
     notes |-> <<>>]

PmNote(velocity, pitch, start, end) ==
    [velocity |-> velocity, pitch |-> pitch, start |-> start, end |-> end]

\* The score: pm.instruments in order. A KeyError of the drum mapping is
\* caught inside the loop, nothing else in the function raises.
build_pretty_midi(drum_mapping, song_specification, drum_events, note_events) ==
    LET DrumNote(notes, ev, p) ==
            IF ~p.ok THEN notes
            ELSE Append(notes, PmNote(ev.velocity, p.note, ev.time_sec,
                                      ev.time_sec + UnitsPerSecond \div 20))
        HasChannel(map, ch) == \E i \in 1..Len(map) : map[i].channel = ch
        FromBand(map, inst) ==
            IF HasChannel(map, inst.channel) THEN map
            ELSE Append(map, PmInstrument(inst.gm_program, FALSE, inst.name,
                                          inst.channel))
        Generic(map, ne) ==
            IF HasChannel(map, ne.channel) THEN map
            ELSE Append(map, PmInstrument(0, FALSE, ChannelName(ne.channel),
                                          ne.channel))
        Insert(map, ne) ==
            SeqOf([i \in 1..Len(map) |->
                IF map[i].channel = ne.channel
                THEN [map[i] EXCEPT !.notes =
                          Append(@, PmNote(ne.velocity, ne.pitch, ne.start_time,
                                           ne.end_time))]
                ELSE map[i]])
        Score(drum_notes, map) ==
            [raised |-> FALSE,
             instruments |->
                 (IF drum_notes # <<>>
                  THEN <<[program |-> 0, is_drum |-> TRUE, name |-> "Drums",
                          notes |-> drum_notes]>>
                  ELSE <<>>)
                 \o SelectSeq(map, LAMBDA inst : inst.notes # <<>>)]
    IN  Score(ForEach(LAMBDA notes, ev :
                          DrumNote(notes, ev,
                                   get_primary_note_for_class(drum_mapping,
                                                              ev.drum_class)),
                      <<>>, SortedByTime(drum_events)),
              ForEach(Insert,
                      ForEach(Generic,
                              ForEach(FromBand, <<>>,
                                      song_specification.band_configuration),
                              note_events),
                      note_events))

----------------------------------------------------------------------------
(* Single calls of the generators' functions: the inputs are drawn at the    *)
(* start, one action applies the function and keeps what it returned         *)

\* The flow is not running while a single call is studied
NoFlow ==
    /\ generator = [complexity |-> 0, ghostnote_probability |-> 0,
                    pause_probability |-> 0]
    /\ scenario = [kind |-> "call"]
    /\ boot = [r \in Runs |-> 0]
    /\ plan = [r \in Runs |-> <<>>]
    /\ pc = [r \in Runs |-> "idle"]
    /\ cur = [r \in Runs |-> song]
    /\ pyRnd = [r \in Runs |-> 0]
    /\ npRnd = [r \in Runs |-> 0]
    /\ drumEvents = [r \in Runs |-> <<>>]
    /\ tracks = [r \in Runs |-> <<>>]

\* The call record once the function has returned out
Returned(call, out) ==
    [x \in DOMAIN call \cup {"out"} |->
        IF x = "out" THEN out ELSE IF x = "called" THEN TRUE ELSE call[x]]

Pending(op) == fn.op = op /\ ~fn.called

SeqRange(s) == {s[i] : i \in 1..Len(s)}

(* ---- HarmonyGenerator ---- *)

HarmonySongs == {s \in Songs : Len(s.band_configuration) = 2}

\* The letter parts of the numerals studied: I..VII in upper, lower and mixed
\* case, and letter parts that are no degree
DegreeLetters ==
    << <<"I">>, <<"I", "I">>, <<"I", "I", "I">>, <<"I", "V">>, <<"V">>,
       <<"V", "I">>, <<"V", "I", "I">> >>

StrLower(s) == SeqOf([i \in 1..Len(s) |-> LowerChar(s[i])])

StrUpper(s) == SeqOf([i \in 1..Len(s) |-> UpperChar(s[i])])

LetterParts ==
    SeqRange(DegreeLetters)
    \cup {StrLower(l) : l \in SeqRange(DegreeLetters)}
    \cup {<<"I", "v">>, <<"v", "I">>, <<"v", "I", "i">>}
    \cup {<<"Z">>, <<"z">>, <<"X">>, <<>>, <<"I", "I", "I", "I">>,
          <<"V", "I", "I", "I">>, <<"i", "Z">>}

QualityMarks == {<<>>, <<"°">>, <<"o">>, <<"+">>, <<"d", "i", "m">>}

Paddings == {<<>>, <<" ">>}

RomanCalls ==
    {[op |-> "roman_to_degree_and_quality", letters |-> l, mark |-> m,
      token |-> pad \o l \o m \o pad, called |-> FALSE] :
         l \in LetterParts, m \in QualityMarks, pad \in Paddings}

\* The progression of the tables, the same with one numeral damaged, and
\* with every numeral damaged
Progressions(s) ==
    LET Table(p) ==
            {p} \cup {[p EXCEPT ![k] = <<"Z">>] : k \in 1..Len(p)}
                \cup {SeqOf([k \in 1..Len(p) |-> <<"Z">>])}
    IN  Table(choose_chord_progression(s))

InstrumentsOfRole(role) == SeqRange(get_instruments_by_role(create_instruments, role))

\* The instrument lists handed to generate_pad_or_lead_tracks: each pad and
\* lead instrument alone, a pad with a lead, and a list starting with an
\* instrument that is neither
PadLeadLists ==
    {<<i>> : i \in InstrumentsOfRole("pad") \cup InstrumentsOfRole("lead")}
    \cup {<<create_instruments[15], create_instruments[17]>>,
          <<create_instruments[19], create_instruments[16]>>,
          <<create_instruments[1], create_instruments[15]>>}

TrackCalls(s) ==
    {[op |-> "generate_chord_track", instrument |-> i, progression |-> p,
      called |-> FALSE] : i \in InstrumentsOfRole("chords"), p \in Progressions(s)}
    \cup {[op |-> "generate_bass_track", instrument |-> i, progression |-> p,
           called |-> FALSE] : i \in InstrumentsOfRole("bass"), p \in Progressions(s)}
    \cup {[op |-> "generate_pad_or_lead_tracks", instruments |-> is,
           progression |-> p, called |-> FALSE] :
              is \in PadLeadLists, p \in Progressions(s)}

MaxProgressionBars == 6

\* choose_chord_progression is called on the song with this style, key and
\* number of bars
ProgressionCalls ==
    {[op |-> "choose_chord_progression", style |-> style, key |-> key,
      number_of_bars |-> n, called |-> FALSE] :
         style \in {"funk", "funk_pop", "rock"}, key \in {"C major", "A minor"},
         n \in 0..MaxProgressionBars}

HarmonyInit ==
    /\ song \in HarmonySongs
    /\ fn \in RomanCalls \cup TrackCalls(song) \cup ProgressionCalls
    /\ NoFlow

RomanToDegreeAndQuality ==
    /\ Pending("roman_to_degree_and_quality")
    /\ fn' = Returned(fn, roman_to_degree_and_quality(fn.token))
    /\ UNCHANGED flowVars

GenerateChordTrack ==
    /\ Pending("generate_chord_track")
    /\ fn' = Returned(fn, ChordTrackFor(fn.progression, song, fn.instrument))
    /\ UNCHANGED flowVars

GenerateBassTrack ==
    /\ Pending("generate_bass_track")
    /\ fn' = Returned(fn, BassTrackFor(fn.progression, song, fn.instrument))
    /\ UNCHANGED flowVars

GeneratePadOrLeadTracks ==
    /\ Pending("generate_pad_or_lead_tracks")
    /\ fn' = Returned(fn, PadOrLeadTracksFor(fn.progression, song, fn.instruments))
    /\ UNCHANGED flowVars

ChooseChordProgression ==
    /\ Pending("choose_chord_progression")
    /\ fn' = Returned(fn, choose_chord_progression(
                   [song EXCEPT !.style = fn.style, !.key = fn.key,
                                !.number_of_bars = fn.number_of_bars]))
    /\ UNCHANGED flowVars

HarmonyNext ==
    \/ RomanToDegreeAndQuality
    \/ ChooseChordProgression
    \/ GenerateChordTrack
    \/ GenerateBassTrack
    \/ GeneratePadOrLeadTracks

SpecHarmony == HarmonyInit /\ [][HarmonyNext]_vars

(* ---- _apply_voice_leading ---- *)

MaxVoices == 3

VoicePitches == {48, 54, 60, 79}

Voicings == UNION {[1..n -> VoicePitches] : n \in 0..MaxVoices}

VoiceInit ==
    /\ song \in {s \in HarmonySongs : s.number_of_bars = 1 /\ s.random_seed = 1
                                      /\ s.style = "funk"}
    /\ fn \in {[op |-> "apply_voice_leading", base_voicing |-> b,
                prev_voicing |-> p, called |-> FALSE] :
                   b \in Voicings, p \in Voicings}
    /\ NoFlow

ApplyVoiceLeading ==
    /\ Pending("apply_voice_leading")
    /\ fn' = Returned(fn, apply_voice_leading(fn.base_voicing, fn.prev_voicing))
    /\ UNCHANGED flowVars

SpecVoice == VoiceInit /\ [][ApplyVoiceLeading]_vars

(* ---- build_pretty_midi ---- *)

MaxDrumEvents == 3

\* Two mapped classes (one with several notes) and a class no mapping holds
DrumClassesStudied == {"HH_CLOSED", "SNARE", "COWBELL"}

DrumTimes == {0, UnitsPerSecond \div 2}

DrumEventLists ==
    UNION {[1..n -> {DrumEvent(t, c, 100) : t \in DrumTimes, c \in DrumClassesStudied}] :
               n \in 0..MaxDrumEvents}

\* The mapping of the dataset builder, and one whose SNARE has no note
DrumMappings ==
    {create_drum_mapping,
     [create_drum_mapping EXCEPT !.class_to_notes["SNARE"] = <<>>]}

NoteOn(channel) ==
    [start_time |-> 0, end_time |-> UnitsPerSecond \div 2, pitch |-> 60,
     velocity |-> 90, channel |-> channel]

\* One note per band instrument in band order, the same in reverse order,
\* and with a note on a channel without instrument in front
NoteEventLists(s) ==
    LET Each(band) == SeqOf([i \in 1..Len(band) |-> NoteOn(band[i].channel)])
        Lists(each) ==
            {<<>>, each, SeqOf([i \in 1..Len(each) |-> each[Len(each) + 1 - i]]),
             <<NoteOn(12)>> \o each}
    IN  Lists(Each(s.band_configuration))

MidiInit ==
    /\ song \in {s \in Songs : s.number_of_bars = 1 /\ s.random_seed = 1
                               /\ s.style = "funk"}
    /\ fn \in {[op |-> "build_pretty_midi", drum_mapping |-> m, drum_events |-> d,
                note_events |-> n, called |-> FALSE] :
                   m \in DrumMappings, d \in DrumEventLists,
                   n \in NoteEventLists(song)}
    /\ NoFlow

BuildPrettyMidi ==
    /\ Pending("build_pretty_midi")
    /\ fn' = Returned(fn, build_pretty_midi(fn.drum_mapping, song, fn.drum_events,
                                            fn.note_events))
    /\ UNCHANGED flowVars

SpecMidi == MidiInit /\ [][BuildPrettyMidi]_vars

----------------------------------------------------------------------------
(* ---- DrumPatternGenerator.generate_drum_track ---- *)

MaxDrumSeeds == 4

\* generate_drum_track is called on a generator self = (complexity,
\* ghostnote_probability, pause_probability), with the random module and numpy's
\* generator in the states rnd and np
DrumInit ==
    /\ song \in {SongSpecification(k[3], k[4], bars, k[2], k[1],
                                   <<create_instruments[11], create_instruments[1]>>, 1) :
                     k \in SongKinds, bars \in {1, 4, 8}}
    /\ fn \in {[op |-> "generate_drum_track", self |-> self, rnd |-> RngSeed(seed),
                np |-> np, called |-> FALSE] :
                   self \in GeneratorSettings
                       \cup {[complexity |-> 0, ghostnote_probability |-> 0,
                              pause_probability |-> 10],
                             [complexity |-> 1, ghostnote_probability |-> 9,
                              pause_probability |-> 0],
                             [complexity |-> 2, ghostnote_probability |-> 9,
                              pause_probability |-> 0],
                             [complexity |-> 3, ghostnote_probability |-> 9,
                              pause_probability |-> 0]},
                   seed \in 1..MaxDrumSeeds, np \in BootStates}
    /\ NoFlow

GenerateDrumTrackCall ==
    /\ Pending("generate_drum_track")
    /\ fn' = Returned(fn, generate_drum_track(song, fn.self, fn.rnd, fn.np))
    /\ UNCHANGED flowVars

SpecDrums == DrumInit /\ [][GenerateDrumTrackCall]_vars

----------------------------------------------------------------------------
(* ---- The pattern library and the arrays over generate_drum_track and ---- *)
(* ---- generate_fill calls                                              ---- *)

MaxStoreBars == 2

MaxStoreFills == 1

\* The generator before a call: the style's library as the module holds it,
\* an empty store. given lists <<reference, contents>> of every array handed
\* to _mutate_bar_arrays so far
StoreInit ==
    /\ song \in {SongSpecification(k[3], k[4], 1, k[2], k[1],
                                   <<create_instruments[11], create_instruments[1]>>, 1) :
                     k \in SongKinds}
    /\ fn \in {[op |-> "store", at |-> "idle", self |-> self, rnd |-> RngSeed(seed),
                np |-> np, library |-> select_pattern_library(song.style),
                heap |-> <<>>, arrays |-> <<>>, template |-> 0, given |-> <<>>,
                mutated |-> <<>>, events |-> <<>>, bars |-> 0, fills |-> 0] :
                   self \in GeneratorSettings
                       \cup {[complexity |-> 10, ghostnote_probability |-> 0,
                              pause_probability |-> 10]},
                   seed \in 1..MaxDrumSeeds, np \in BootStates}
    /\ NoFlow

\* generate_drum_track, loop body up to _pattern_dict_to_arrays: a template is
\* chosen and its step strings become new arrays
ConvertTemplate ==
    /\ fn.op = "store" /\ fn.at = "idle" /\ fn.bars < MaxStoreBars
    /\ LET Allocate(chosen, values) ==
               fn' = [fn EXCEPT
                        !.at = "converted",
                        !.template = chosen.name,
                        !.rnd = chosen.rnd,
                        !.heap = fn.heap \o SeqOf([v \in 1..Len(values) |-> values[v][2]]),
                        !.arrays = SeqOf([v \in 1..Len(values) |->
                                       <<values[v][1], Len(fn.heap) + v>>])]
           Convert(chosen) ==
               Allocate(chosen, pattern_dict_to_arrays(fn.library[chosen.name][2],
                                                       STEP_RESOLUTION))
       IN  Convert(choose_pattern_name(fn.library, fn.self.complexity, fn.rnd))
    /\ UNCHANGED flowVars

\* generate_drum_track, rest of the loop body: _mutate_bar_arrays, the bar's
\* events and its ghost notes
MutateBarArrays ==
    /\ fn.op = "store" /\ fn.at = "converted"
    /\ LET Events(m, values, ghost) ==
               fn' = [fn EXCEPT
                        !.at = "idle",
                        !.heap = m.heap,
                        !.mutated = m.arrays,
                        !.given = fn.given \o
                            SeqOf([v \in 1..Len(fn.arrays) |->
                                <<fn.arrays[v][2], fn.heap[fn.arrays[v][2]]>>]),
                        !.rnd = ghost.rnd,
                        !.np = m.np,
                        !.events = fn.events
                            \o arrays_to_events(values,
                                   fn.bars * compute_timing(song).seconds_per_bar,
                                   compute_timing(song).seconds_per_bar)
                            \o ghost.events,
                        !.bars = fn.bars + 1]
           Ghosts(m, values) ==
               Events(m, values,
                      add_ghostnotes_for_bar(fn.self, ArraysGet(values, "SNARE"),
                          fn.bars * compute_timing(song).seconds_per_bar,
                          compute_timing(song).seconds_per_bar, m.rnd))
           Mutate(m) ==
               Ghosts(m, SeqOf([v \in 1..Len(m.arrays) |->
                             <<m.arrays[v][1], m.heap[m.arrays[v][2]]>>]))
       IN  Mutate(mutate_bar_arrays_in_store(fn.heap, fn.arrays, fn.self.complexity,
                                             fn.self.pause_probability, fn.rnd, fn.np))
    /\ UNCHANGED flowVars

\* generate_fill for one bar after the bars generated so far
GenerateFill ==
    /\ fn.op = "store" /\ fn.at = "idle" /\ fn.fills < MaxStoreFills
    /\ LET Fill(f) ==
               fn' = [fn EXCEPT !.heap = fn.heap \o f.steps, !.rnd = f.rnd,
                                !.events = fn.events \o f.events,
                                !.fills = fn.fills + 1]
       IN  Fill(generate_fill(song, fn.self, fn.bars, 1, fn.rnd))
    /\ UNCHANGED flowVars

StoreNext ==
    \/ ConvertTemplate
    \/ MutateBarArrays
    \/ GenerateFill

SpecStore == StoreInit /\ [][StoreNext]_vars

----------------------------------------------------------------------------
(* HarmonyGenerator constructed with a scale vocabulary of the caller's *)

\* The vocabularies studied for a song in this key: the dataset builder's,
\* the same with no note for the key, one without the key whose "C major" has
\* no note, and a single key with a one-semitone scale
ScaleVocabs(key) ==
    {scale_vocab,
     [k \in DOMAIN scale_vocab |-> IF k = key THEN <<>> ELSE scale_vocab[k]],
     [k \in {"C major"} |-> <<>>],
     [k \in {"B major"} |-> <<11>>]}

VocabCalls ==
    {[op |-> "generate_chord_track", scale_vocab |-> v, instrument |-> i,
      called |-> FALSE] :
         v \in ScaleVocabs(song.key), i \in InstrumentsOfRole("chords")}
    \cup {[op |-> "generate_bass_track", scale_vocab |-> v, instrument |-> i,
           called |-> FALSE] :
              v \in ScaleVocabs(song.key), i \in InstrumentsOfRole("bass")}
    \cup {[op |-> "generate_pad_or_lead_tracks", scale_vocab |-> v,
           instruments |-> is, called |-> FALSE] :
              v \in ScaleVocabs(song.key), is \in PadLeadLists}

VocabInit ==
    /\ song \in {s \in HarmonySongs : s.random_seed = 1}
    /\ fn \in VocabCalls
    /\ NoFlow

ChordTrackWithVocab ==
    /\ Pending("generate_chord_track")
    /\ fn' = Returned(fn, generate_chord_track(song, fn.instrument))
    /\ UNCHANGED flowVars

BassTrackWithVocab ==
    /\ Pending("generate_bass_track")
    /\ fn' = Returned(fn, generate_bass_track(song, fn.instrument))
    /\ UNCHANGED flowVars

PadOrLeadTracksWithVocab ==
    /\ Pending("generate_pad_or_lead_tracks")
    /\ fn' = Returned(fn, generate_pad_or_lead_tracks(song, fn.instruments))
    /\ UNCHANGED flowVars

VocabNext ==
    \/ ChordTrackWithVocab
    \/ BassTrackWithVocab
    \/ PadOrLeadTracksWithVocab

SpecVocab == VocabInit /\ [][VocabNext]_vars

----------------------------------------------------------------------------
(* SongSpecification.get_duration_seconds and compute_bar_positions *)

MaxTimingBars == 16

\* Tempos whose seconds per beat are a whole number of time units
TimingTempos == {60, 90, 100, 120, 150}

TimingSignatures == {<<4, 4>>, <<3, 4>>, <<6, 8>>, <<7, 8>>, <<2, 2>>}

TimingSongs ==
    {SongSpecification(tempo, ts, bars, "C major", "pop-straight",
                       <<create_instruments[11], create_instruments[1]>>, 1) :
         tempo \in TimingTempos, ts \in TimingSignatures, bars \in 0..MaxTimingBars}

TimingInit ==
    /\ song \in TimingSongs
    /\ fn \in {[op |-> op, called |-> FALSE] :
                  op \in {"get_duration_seconds", "compute_bar_positions"}}
    /\ NoFlow

GetDurationSeconds ==
    /\ Pending("get_duration_seconds")
    /\ fn' = Returned(fn, get_duration_seconds(song))
    /\ UNCHANGED flowVars

ComputeBarPositions ==
    /\ Pending("compute_bar_positions")
    /\ fn' = Returned(fn, compute_bar_positions(song))
    /\ UNCHANGED flowVars

TimingNext ==
    \/ GetDurationSeconds
    \/ ComputeBarPositions

SpecTiming == TimingInit /\ [][TimingNext]_vars

----------------------------------------------------------------------------
(* DrumMapping: single calls *)

MaxMidiNote == 60

\* The dataset builder's mapping; one whose SNARE has no note; one without
\* the class RIDE; one whose note 40 is not in note_to_class
MappingsStudied ==
    {create_drum_mapping,
     [create_drum_mapping EXCEPT !.class_to_notes["SNARE"] = <<>>],
     [create_drum_mapping EXCEPT
         !.class_to_notes =
             [c \in DOMAIN create_drum_mapping.class_to_notes \ {"RIDE"} |->
                 create_drum_mapping.class_to_notes[c]]],
     [create_drum_mapping EXCEPT
         !.note_to_class =
             [n \in DOMAIN create_drum_mapping.note_to_class \ {40} |->
                 create_drum_mapping.note_to_class[n]]]}

\* The classes asked for: the core classes and one no mapping knows
ClassesAsked == SeqRange(create_drum_mapping.core_classes) \cup {"COWBELL"}

MappingCalls ==
    {[op |-> "get_primary_note_for_class", self |-> m, drum_class |-> c,
      called |-> FALSE] : m \in MappingsStudied, c \in ClassesAsked}
    \cup {[op |-> op, self |-> m, note |-> n, called |-> FALSE] :
             op \in {"map_note_to_class", "is_supported_note"},
             m \in MappingsStudied, n \in 0..MaxMidiNote}

MappingInit ==
    /\ song \in {s \in HarmonySongs : s.number_of_bars = 1 /\ s.random_seed = 1
                                      /\ s.style = "funk"}
    /\ fn \in MappingCalls
    /\ NoFlow

GetPrimaryNoteForClass ==
    /\ Pending("get_primary_note_for_class")
    /\ fn' = Returned(fn, get_primary_note_for_class(fn.self, fn.drum_class))
    /\ UNCHANGED flowVars

\* map_note_to_class called on the note get_primary_note_for_class returned
MapPrimaryNote ==
    /\ fn.op = "get_primary_note_for_class" /\ fn.called /\ fn.out.ok
    /\ fn' = [op |-> "map_note_to_class", self |-> fn.self, note |-> fn.out.note,
              primary_of |-> fn.drum_class, called |-> TRUE,
              out |-> map_note_to_class(fn.self, fn.out.note)]
    /\ UNCHANGED flowVars

MapNoteToClass ==
    /\ Pending("map_note_to_class")
    /\ fn' = Returned(fn, map_note_to_class(fn.self, fn.note))
    /\ UNCHANGED flowVars

IsSupportedNote ==
    /\ Pending("is_supported_note")
    /\ fn' = Returned(fn, is_supported_note(fn.self, fn.note))
    /\ UNCHANGED flowVars

MappingNext ==
    \/ GetPrimaryNoteForClass
    \/ MapPrimaryNote
    \/ MapNoteToClass
    \/ IsSupportedNote

SpecMapping == MappingInit /\ [][MappingNext]_vars

----------------------------------------------------------------------------
(* to_dict and from_dict of Instrument, BandConfiguration, SongSpecification *)

\* A Python number: its type and its value in hundredths; == compares values
PyInt(n) == [t |-> "int", v |-> n * 100]

PyFloat(hundredths) == [t |-> "float", v |-> hundredths]

\* int(x): the fraction is cut off towards zero
int(x) ==
    [t |-> "int",
     v |-> IF x.v >= 0 THEN (x.v \div 100) * 100 ELSE -(((-x.v) \div 100) * 100)]

\* float(x): the same value as a float
float(x) == [t |-> "float", v |-> x.v]

\* Instrument.__init__ keeps its arguments as they are
Instrument_init(name, gm_program, channel, volume, pan, role) ==
    [name |-> name, gm_program |-> gm_program, channel |-> channel,
     volume |-> volume, pan |-> pan, role |-> role]

Instrument_to_dict(self) ==
    [name |-> self.name, gm_program |-> self.gm_program, channel |-> self.channel,
     volume |-> self.volume, pan |-> self.pan, role |-> self.role]

\* from_dict with the volume read as a whole number
Instrument_from_dict_whole_volume(data) ==
    Instrument_init(data.name, int(data.gm_program), int(data.channel),
                    int(data.volume), float(data.pan), data.role)

Instrument_from_dict(data) ==
    Instrument_init(data.name, int(data.gm_program), int(data.channel),
                    float(data.volume), float(data.pan), data.role)

\* DrumMapping.__init__: the dictionaries and lists are copied
DrumMapping_init(note_to_class, class_to_notes, core_classes) ==
    [note_to_class |-> note_to_class, class_to_notes |-> class_to_notes,
     core_classes |-> core_classes]

BandConfiguration_init(drum_channel, drum_mapping, instruments) ==
    [drum_channel |-> drum_channel, drum_mapping |-> drum_mapping,
     instruments |-> instruments]

BandConfiguration_to_dict(self) ==
    [drum_channel |-> self.drum_channel,
     drum_mapping |->
         [note_to_class |-> self.drum_mapping.note_to_class,
          class_to_notes |-> self.drum_mapping.class_to_notes,
          core_classes |-> self.drum_mapping.core_classes],
     instruments |->
         SeqOf([i \in 1..Len(self.instruments) |->
                   Instrument_to_dict(self.instruments[i])])]

BandConfiguration_from_dict(data) ==
    BandConfiguration_init(
        int(data.drum_channel),
        DrumMapping_init(data.drum_mapping.note_to_class,
                         data.drum_mapping.class_to_notes,
                         data.drum_mapping.core_classes),
        SeqOf([i \in 1..Len(data.instruments) |->
                  Instrument_from_dict(data.instruments[i])]))

\* SongSpecification.__init__ with the identifier: the numbers are converted
SongSpecification_init(song_identifier, tempo_bpm, time_signature, number_of_bars, key, style, band_configuration, random_seed) ==
    [song_identifier |-> song_identifier, tempo_bpm |-> float(tempo_bpm),
     time_signature |-> <<int(time_signature[1]), int(time_signature[2])>>,
     number_of_bars |-> int(number_of_bars), key |-> key, style |-> style,
     band_configuration |-> band_configuration, random_seed |-> int(random_seed)]

SongSpecification_to_dict(self) ==
    [song_identifier |-> self.song_identifier, tempo_bpm |-> self.tempo_bpm,
     time_signature |-> [numerator |-> self.time_signature[1],
                         denominator |-> self.time_signature[2]],
     number_of_bars |-> self.number_of_bars, key |-> self.key, style |-> self.style,
     band_configuration |-> BandConfiguration_to_dict(self.band_configuration),
     random_seed |-> self.random_seed]

SongSpecification_from_dict(data) ==
    SongSpecification_init(
        data.song_identifier, float(data.tempo_bpm),
        <<int(data.time_signature.numerator), int(data.time_signature.denominator)>>,
        int(data.number_of_bars), data.key, data.style,
        BandConfiguration_from_dict(data.band_configuration),
        int(data.random_seed))

MaxDictInstruments == 2

\* Instruments with a volume and a pan given as floats and as whole numbers
DictInstruments ==
    {Instrument_init("Electric Piano 1", PyInt(4), PyInt(0), PyFloat(80),
                     PyFloat(-30), "chords"),
     Instrument_init("Electric Bass (finger)", PyInt(33), PyInt(1), PyInt(1),
                     PyInt(0), "bass"),
     Instrument_init("Lead 1 (square)", PyInt(80), PyInt(15), PyFloat(5),
                     PyFloat(99), "lead")}

DictBands ==
    {BandConfiguration_init(PyInt(9), m, is) :
        m \in {create_drum_mapping,
               DrumMapping_init([n \in {36, 38} |-> IF n = 36 THEN "KICK" ELSE "SNARE"],
                                [c \in {"KICK", "SNARE"} |->
                                    IF c = "KICK" THEN <<36>> ELSE <<38>>],
                                <<"KICK", "SNARE">>)},
        is \in UNION {[1..n -> DictInstruments] : n \in 0..MaxDictInstruments}}

\* Songs as the constructor builds them from whole and fractional arguments
DictSongs ==
    {SongSpecification_init("song_0001_pop_c_major", tempo, ts, bars, "C major",
                            "pop_straight", band, PyInt(42)) :
        tempo \in {PyInt(120), PyFloat(9050)},
        ts \in {<<PyInt(4), PyInt(4)>>, <<PyInt(3), PyInt(4)>>},
        bars \in {PyInt(16), PyFloat(250)},
        band \in DictBands}

DictInit ==
    /\ song \in {s \in HarmonySongs : s.number_of_bars = 1 /\ s.random_seed = 1
                                      /\ s.style = "funk"}
    /\ fn \in {[op |-> "to_dict", self |-> s, called |-> FALSE] : s \in DictSongs}
    /\ NoFlow

ToDict ==
    /\ Pending("to_dict")
    /\ fn' = Returned(fn, SongSpecification_to_dict(fn.self))
    /\ UNCHANGED flowVars

\* from_dict called on what to_dict returned
FromDict ==
    /\ fn.op = "to_dict" /\ fn.called
    /\ fn' = [op |-> "from_dict", original |-> fn.self, data |-> fn.out,
              called |-> TRUE, out |-> SongSpecification_from_dict(fn.out)]
    /\ UNCHANGED flowVars

DictNext ==
    \/ ToDict
    \/ FromDict

SpecDict == DictInit /\ [][DictNext]_vars

----------------------------------------------------------------------------
(* DrumPatternGenerator._mutate_bar_arrays, statement by statement *)

MaxMutateSeeds == 3

\* The bars handed to _mutate_bar_arrays: the templates of the libraries
TemplateArrays ==
    UNION {{pattern_dict_to_arrays(lib[i][2], STEP_RESOLUTION) : i \in 1..Len(lib)} :
              lib \in {pop_straight_patterns, rock_patterns, funk_patterns,
                       disco_patterns, shuffle_patterns}}

MutateComplexities == {0, 1, 2, 6, 8, 10}

MutateCalls ==
    {[op |-> "mutate_bar_arrays", arrays |-> arrays, complexity |-> complexity,
      pause_probability |-> pause, rnd0 |-> RngSeed(seed), np0 |-> np,
      at |-> IF complexity <= 0 THEN "pause" ELSE "shift",
      v |-> 1, a |-> <<>>, before |-> <<>>,
      mutated |-> IF complexity <= 0 THEN arrays ELSE <<>>,
      unmerged |-> <<>>, hh_open_merge |-> <<>>,
      rnd |-> RngSeed(seed), np |-> np, shift |-> 0, n_toggles |-> 0,
      mode |-> "", a_open |-> <<>>, called |-> FALSE] :
         arrays \in TemplateArrays, complexity \in MutateComplexities,
         pause \in {0, 5}, seed \in 1..MaxMutateSeeds, np \in BootStates}

MutateInit ==
    /\ song \in {s \in HarmonySongs : s.number_of_bars = 1 /\ s.random_seed = 1
                                      /\ s.style = "funk"}
    /\ fn \in MutateCalls
    /\ NoFlow

MutateAt(at) == fn.op = "mutate_bar_arrays" /\ fn.at = at

\* a = arr.copy() and the shift of voice v
ShiftVoice ==
    /\ MutateAt("shift")
    /\ LET sh == shift_voice(fn.arrays[fn.v][2], fn.complexity, fn.rnd)
       IN  fn' = [fn EXCEPT !.at = "toggle", !.before = fn.arrays[fn.v][2],
                            !.a = sh.a, !.rnd = sh.rnd, !.shift = sh.shift]
    /\ UNCHANGED flowVars

ToggleVoice ==
    /\ MutateAt("toggle")
    /\ LET tg == toggle_voice(fn.a, fn.complexity, fn.rnd)
       IN  fn' = [fn EXCEPT !.at = "thin", !.before = fn.a, !.a = tg.a,
                            !.rnd = tg.rnd, !.n_toggles = tg.n_toggles]
    /\ UNCHANGED flowVars

ThinClosedHat ==
    /\ MutateAt("thin")
    /\ LET th == thin_closed_hat(fn.arrays[fn.v][1], fn.a, fn.rnd)
       IN  fn' = [fn EXCEPT !.at = "open", !.before = fn.a, !.a = th.a,
                            !.rnd = th.rnd, !.mode = th.mode]
    /\ UNCHANGED flowVars

\* The opening, mutated[drum_class] = a, and the next voice
OpenClosedHat ==
    /\ MutateAt("open")
    /\ LET op == open_closed_hat(fn.arrays[fn.v][1], fn.a, fn.complexity, fn.rnd, fn.np)
       IN  fn' = [fn EXCEPT !.at = IF fn.v < Len(fn.arrays) THEN "next" ELSE "merge",
                            !.before = fn.a, !.a = op.a, !.a_open = op.a_open,
                            !.rnd = op.rnd, !.np = op.np,
                            !.mutated = Append(fn.mutated, <<fn.arrays[fn.v][1], op.a>>),
                            !.hh_open_merge = MergeOpen(fn.hh_open_merge, op.a_open)]
    /\ UNCHANGED flowVars

NextVoice ==
    /\ MutateAt("next")
    /\ fn' = [fn EXCEPT !.at = "shift", !.v = fn.v + 1]
    /\ UNCHANGED flowVars

MergeOpenHats ==
    /\ MutateAt("merge")
    /\ fn' = [fn EXCEPT !.at = "pause", !.unmerged = fn.mutated,
                        !.mutated = MergeIntoArrays(fn.mutated, fn.hh_open_merge)]
    /\ UNCHANGED flowVars

InsertRandomPause ==
    /\ MutateAt("pause")
    /\ LET p == insert_random_pause(fn.mutated, fn.pause_probability, fn.rnd)
       IN  fn' = [fn EXCEPT !.at = "done", !.called = TRUE, !.rnd = p.rnd,
                            !.mutated = p.arrays]
    /\ UNCHANGED flowVars

MutateNext ==
    \/ ShiftVoice
    \/ ToggleVoice
    \/ ThinClosedHat
    \/ OpenClosedHat
    \/ NextVoice
    \/ MergeOpenHats
    \/ InsertRandomPause

SpecMutate == MutateInit /\ [][MutateNext]_vars

----------------------------------------------------------------------------
(* HarmonyGenerator._render_bass_pattern_template_for_bar: single calls *)

MaxBassSeeds == 3

\* The bass patterns that end a bar with an approach to the next root
ApproachPatterns ==
    UNION {{BASS_PATTERNS_BY_INSTRUMENT[k][i] :
               i \in {j \in 1..Len(BASS_PATTERNS_BY_INSTRUMENT[k]) :
                         \E e \in 1..Len(BASS_PATTERNS_BY_INSTRUMENT[k][j]) :
                             BASS_PATTERNS_BY_INSTRUMENT[k][j][e][3] = "approach_next"}} :
              k \in DOMAIN BASS_PATTERNS_BY_INSTRUMENT}

\* One bar of generate_bass_track: the degree of the bar, the degree of the
\* next bar (the same degree in the last bar), the key of the song
BassBarCalls ==
    {[op |-> "render_bass_pattern_template_for_bar", pattern |-> p,
      degree_index |-> d, next_degree_index |-> nd, key |-> key,
      rnd |-> RngSeed(seed), called |-> FALSE] :
         p \in ApproachPatterns, d \in 0..6, nd \in 0..6,
         key \in DOMAIN scale_vocab, seed \in 1..MaxBassSeeds}

BassInit ==
    /\ song \in {s \in HarmonySongs : s.number_of_bars = 1 /\ s.random_seed = 1
                                      /\ s.style = "funk"}
    /\ fn \in BassBarCalls
    /\ NoFlow

RenderBassPatternTemplateForBar ==
    /\ Pending("render_bass_pattern_template_for_bar")
    /\ fn' = Returned(fn,
                 render_bass_pattern_template_for_bar(
                     [events |-> <<>>, rnd |-> fn.rnd], fn.pattern, fn.degree_index,
                     fn.next_degree_index, get_scale_for_key(fn.key), 36, 0,
                     bar_and_qnote_duration(song.tempo_bpm, song.time_signature[1],
                                            song.time_signature[2]).quarter_duration,
                     6))
    /\ UNCHANGED flowVars

SpecBass == BassInit /\ [][RenderBassPatternTemplateForBar]_vars

----------------------------------------------------------------------------
(* ---- DrumPatternGenerator.generate_fill and generate_drum_track: single ---- *)
(* ---- calls, fills counting the runs of generate_fill                  ---- *)

MaxFillStart == 2

MaxFillBars == 2

FillSettings ==
    GeneratorSettings
        \cup {[complexity |-> 4, ghostnote_probability |-> 2, pause_probability |-> 5],
              [complexity |-> 10, ghostnote_probability |-> 5, pause_probability |-> 5]}

FillInit ==
    /\ song \in {SongSpecification(k[3], k[4], 2, k[2], k[1],
                                   <<create_instruments[11], create_instruments[1]>>, 1) :
                     k \in SongKinds}
    /\ fn \in {[op |-> "generate_fill", self |-> self, start_bar |-> start_bar,
                number_of_bars |-> number_of_bars, rnd |-> RngSeed(seed),
                fills |-> 0, called |-> FALSE] :
                   self \in FillSettings, start_bar \in 0..MaxFillStart,
                   number_of_bars \in 0..MaxFillBars, seed \in 1..MaxDrumSeeds}
          \cup {[op |-> "generate_drum_track", self |-> self, rnd |-> RngSeed(seed),
                 np |-> np, fills |-> 0, called |-> FALSE] :
                    self \in FillSettings, seed \in 1..MaxDrumSeeds, np \in BootStates}
    /\ NoFlow

GenerateFillCall ==
    /\ Pending("generate_fill")
    /\ fn' = Returned([fn EXCEPT !.fills = fn.fills + 1],
                      generate_fill(song, fn.self, fn.start_bar, fn.number_of_bars,
                                    fn.rnd))
    /\ UNCHANGED flowVars

\* generate_drum_track has no call of generate_fill: fills stays as it is
GenerateDrumTrackWithoutFill ==
    /\ Pending("generate_drum_track")
    /\ fn' = Returned(fn, generate_drum_track(song, fn.self, fn.rnd, fn.np))
    /\ UNCHANGED flowVars

FillNext ==
    \/ GenerateFillCall
    \/ GenerateDrumTrackWithoutFill

SpecFill == FillInit /\ [][FillNext]_vars

----------------------------------------------------------------------------
(* ---- One pass of generate_drum_track's loop, statement by statement ---- *)

MaxPauseSeeds == 6

PauseSettings ==
    GeneratorSettings
        \cup {[complexity |-> 0, ghostnote_probability |-> 5, pause_probability |-> 10],
              [complexity |-> 3, ghostnote_probability |-> 9, pause_probability |-> 10],
              [complexity |-> 10, ghostnote_probability |-> 10, pause_probability |-> 10]}

\* The first bar of a song: at is the position in the loop body, arrays the
\* bar's arrays, window the pause _insert_random_pause placed
PauseInit ==
    /\ song \in {SongSpecification(k[3], k[4], 1, k[2], k[1],
                                   <<create_instruments[11], create_instruments[1]>>, 1) :
                     k \in SongKinds}
    /\ fn \in {[op |-> "drum_bar", at |-> "choose", self |-> self,
                rnd |-> RngSeed(seed), np |-> np, arrays |-> <<>>,
                window |-> [fired |-> FALSE, start |-> 0, end |-> 0],
                bar_events |-> <<>>, ghost_events |-> <<>>, called |-> FALSE] :
                   self \in PauseSettings, seed \in 1..MaxPauseSeeds,
                   np \in BootStates}
    /\ NoFlow

PauseAt(at) == fn.op = "drum_bar" /\ fn.at = at

\* pattern_name = self._choose_pattern_name(...); arrays = self._pattern_dict_to_arrays(...)
ChoosePattern ==
    /\ PauseAt("choose")
    /\ LET Convert(patterns_dict, chosen) ==
               fn' = [fn EXCEPT
                        !.at = "mutate", !.rnd = chosen.rnd,
                        !.arrays = pattern_dict_to_arrays(patterns_dict[chosen.name][2],
                                                          STEP_RESOLUTION)]
           Choose(patterns_dict) ==
               Convert(patterns_dict,
                       choose_pattern_name(patterns_dict, fn.self.complexity, fn.rnd))
       IN  Choose(select_pattern_library(song.style))
    /\ UNCHANGED flowVars

\* _mutate_bar_arrays up to its last statement: the voices mutated and merged
MutateVoicesOfBar ==
    /\ PauseAt("mutate")
    /\ LET Merged(acc) ==
               fn' = [fn EXCEPT
                        !.at = "pause", !.rnd = acc.rnd, !.np = acc.np,
                        !.arrays = MergeIntoArrays(acc.mutated, acc.hh_open_merge)]
       IN  IF fn.self.complexity <= 0
           THEN fn' = [fn EXCEPT !.at = "pause"]
           ELSE Merged(ForEach(LAMBDA acc, voice :
                                   MutateVoices(acc, voice, fn.self.complexity),
                               [mutated |-> <<>>, hh_open_merge |-> <<>>,
                                rnd |-> fn.rnd, np |-> fn.np],
                               fn.arrays))
    /\ UNCHANGED flowVars

\* return self._insert_random_pause(...)
PauseBar ==
    /\ PauseAt("pause")
    /\ LET Cut(w, p) ==
               fn' = [fn EXCEPT
                        !.at = "events", !.rnd = p.rnd, !.arrays = p.arrays,
                        !.window = [fired |-> w.fired, start |-> w.start,
                                    end |-> w.end]]
       IN  Cut(pause_window(fn.arrays, fn.self.pause_probability, fn.rnd),
               insert_random_pause(fn.arrays, fn.self.pause_probability, fn.rnd))
    /\ UNCHANGED flowVars

\* events.extend(self._arrays_to_events(...)); events.extend(self._add_ghostnotes_for_bar(...))
ExtendEvents ==
    /\ PauseAt("events")
    /\ LET Extend(seconds_per_bar, ghost) ==
               fn' = [fn EXCEPT
                        !.at = "done", !.called = TRUE, !.rnd = ghost.rnd,
                        !.bar_events = arrays_to_events(fn.arrays, 0, seconds_per_bar),
                        !.ghost_events = ghost.events]
           Ghosts(seconds_per_bar) ==
               Extend(seconds_per_bar,
                      add_ghostnotes_for_bar(fn.self, ArraysGet(fn.arrays, "SNARE"),
                                             0, seconds_per_bar, fn.rnd))
       IN  Ghosts(compute_timing(song).seconds_per_bar)
    /\ UNCHANGED flowVars

PauseNext ==
    \/ ChoosePattern
    \/ MutateVoicesOfBar
    \/ PauseBar
    \/ ExtendEvents

SpecPause == PauseInit /\ [][PauseNext]_vars

----------------------------------------------------------------------------
(* ---- HarmonyGenerator: the three track generators called on one song, ---- *)
(* ---- in any order and repeatedly                                      ---- *)

MaxSessionCalls == 3

\* progression = self.choose_chord_progression(song_specification), the first
\* statement of each generator; instruments are the instruments of the call
progression_for_channel(song_specification, instruments) ==
    choose_chord_progression(
        [song_specification EXCEPT
            !.random_seed = @ + (IF instruments = <<>> THEN 0
                                 ELSE instruments[1].channel * 131)])

progression_for(song_specification, instruments) ==
    choose_chord_progression(song_specification)

SessionInit ==
    /\ song \in Songs
    /\ fn = [op |-> "session", used |-> <<>>]
    /\ NoFlow

\* One more call: what it was called with, the progression it chose and what
\* it returned
Used(method, instruments, progression, out) ==
    /\ fn.op = "session" /\ Len(fn.used) < MaxSessionCalls
    /\ fn' = [fn EXCEPT !.used = Append(@, [generator |-> method,
                                           instruments |-> instruments,
                                           progression |-> progression,
                                           out |-> out])]
    /\ UNCHANGED flowVars

SessionChordTrack ==
    \E b \in 1..Len(song.band_configuration) :
        /\ song.band_configuration[b].role = "chords"
        /\ Used("generate_chord_track", <<song.band_configuration[b]>>,
                progression_for(song, <<song.band_configuration[b]>>),
                generate_chord_track(song, song.band_configuration[b]))

SessionBassTrack ==
    \E b \in 1..Len(song.band_configuration) :
        /\ song.band_configuration[b].role = "bass"
        /\ Used("generate_bass_track", <<song.band_configuration[b]>>,
                progression_for(song, <<song.band_configuration[b]>>),
                generate_bass_track(song, song.band_configuration[b]))

SessionPadOrLeadTracks ==
    LET instruments == SelectSeq(song.band_configuration,
                                 LAMBDA i : i.role \in {"pad", "lead"})
    IN  /\ instruments # <<>>
        /\ Used("generate_pad_or_lead_tracks", instruments,
                progression_for(song, instruments),
                generate_pad_or_lead_tracks(song, instruments))

SessionNext ==
    \/ SessionChordTrack
    \/ SessionBassTrack
    \/ SessionPadOrLeadTracks

SpecSession == SessionInit /\ [][SessionNext]_vars

----------------------------------------------------------------------------
(* Properties of the single calls *)

Returns(op) == fn.op = op /\ fn.called

\* The tracks a finished harmony call returned, as [instrument, events]
ReturnedTracks ==
    IF fn.op = "generate_pad_or_lead_tracks" THEN fn.out.tracks
    ELSE <<[instrument |-> fn.instrument, events |-> fn.out.events]>>

HarmonyReturns ==
    /\ fn.called
    /\ fn.op \in {"generate_chord_track", "generate_bass_track",
                  "generate_pad_or_lead_tracks"}
    /\ ~fn.out.raised

Accent(offset) == IF offset = 0 \/ offset = 200 THEN 10 ELSE 0

WellFormedNote(e, instrument) ==
    /\ e.end_time > e.start_time
    /\ e.velocity \in 40..127
    /\ \E jitter \in -8..8 :
           e.velocity = Max(40, Min(127, e.base_velocity + jitter + Accent(e.offset)))
    /\ e.channel = instrument.channel

\* C6 (NoteEvent well-formedness): every NoteEvent returned by
\* generate_chord_track, generate_bass_track and generate_pad_or_lead_tracks
\* ends after it starts, has a velocity in 40..127 that is its base value plus
\* a jitter in -8..8 plus 10 at quarter offset 0 or 2, clamped, and carries
\* the channel of the instrument it was generated for.
C6_NoteEventWellFormed ==
    HarmonyReturns =>
        \A i \in 1..Len(ReturnedTracks) :
            \A k \in 1..Len(ReturnedTracks[i].events) :
                WellFormedNote(ReturnedTracks[i].events[k],
                               ReturnedTracks[i].instrument)

\* A lead track came back with an accented and an unaccented note
C6_Witness ==
    /\ HarmonyReturns
    /\ fn.op = "generate_pad_or_lead_tracks"
    /\ \E i \in 1..Len(ReturnedTracks) :
           /\ ReturnedTracks[i].instrument.role = "lead"
           /\ \E k \in 1..Len(ReturnedTracks[i].events) :
                  ReturnedTracks[i].events[k].offset = 0
           /\ \E k \in 1..Len(ReturnedTracks[i].events) :
                  ReturnedTracks[i].events[k].offset = 50

Transposed(voicing, shift) == [i \in 1..Len(voicing) |-> voicing[i] + shift]

\* The mean distance over the first min(len) voices, times that number
TotalDistance(voicing, prev_voicing) ==
    SumSeq(SeqOf([i \in 1..Min(Len(voicing), Len(prev_voicing)) |->
               Abs(voicing[i] - prev_voicing[i])]))

\* C7 (Voice leading): with a previous voicing _apply_voice_leading returns
\* the base voicing transposed by -12, 0 or +12, at a distance to the previous
\* voicing that is minimal over the three shifts (so not above the unshifted
\* one); without a previous voicing it returns the base voicing.
C7_VoiceLeading ==
    Returns("apply_voice_leading") =>
        /\ fn.prev_voicing = <<>> => fn.out = fn.base_voicing
        /\ fn.prev_voicing # <<>> =>
               /\ \E shift \in {-12, 0, 12} :
                      fn.out = Transposed(fn.base_voicing, shift)
               /\ \A shift \in {-12, 0, 12} :
                      TotalDistance(fn.out, fn.prev_voicing)
                          <= TotalDistance(Transposed(fn.base_voicing, shift),
                                           fn.prev_voicing)
               /\ TotalDistance(fn.out, fn.prev_voicing)
                      <= TotalDistance(fn.base_voicing, fn.prev_voicing)

\* A voicing of three voices was moved and came closer to a previous voicing
\* of two voices
C7_Witness ==
    /\ Returns("apply_voice_leading")
    /\ Len(fn.base_voicing) = 3 /\ Len(fn.prev_voicing) = 2
    /\ fn.out # fn.base_voicing
    /\ TotalDistance(fn.out, fn.prev_voicing)
           < TotalDistance(fn.base_voicing, fn.prev_voicing)

RolePriority(role) ==
    CASE role = "chords" -> 0 [] role = "bass" -> 1 [] role = "pad" -> 2
      [] role = "lead" -> 3 [] OTHER -> 99

\* The role of a track of the score: that of the band instrument it was made
\* for, unknown for a generic track
TrackRole(track) ==
    IF \E i \in 1..Len(song.band_configuration) :
           song.band_configuration[i].name = track.name
    THEN (CHOOSE inst \in SeqRange(song.band_configuration) :
              inst.name = track.name).role
    ELSE "unknown"

InScoreOrder(a, b) ==
    \/ RolePriority(TrackRole(a)) < RolePriority(TrackRole(b))
    \/ /\ RolePriority(TrackRole(a)) = RolePriority(TrackRole(b))
       /\ a.channel <= b.channel

\* C8 (Track ordering): in the score of build_pretty_midi the instrument
\* tracks are ordered by role priority, then by channel, and the drum track
\* comes after all of them.
C8_TrackOrder ==
    Returns("build_pretty_midi") =>
        \A a, b \in 1..Len(fn.out.instruments) :
            a < b =>
                /\ ~fn.out.instruments[a].is_drum
                /\ ~fn.out.instruments[b].is_drum =>
                       InScoreOrder(fn.out.instruments[a], fn.out.instruments[b])

Mappable(drum_mapping, ev) ==
    /\ ev.drum_class \in DOMAIN drum_mapping.class_to_notes
    /\ drum_mapping.class_to_notes[ev.drum_class] # <<>>

\* The drum note of a mappable event: its primary pitch, 50 ms long
NoteOfDrumEvent(drum_mapping, ev) ==
    [velocity |-> ev.velocity,
     pitch |-> drum_mapping.class_to_notes[ev.drum_class][1],
     start |-> ev.time_sec, end |-> ev.time_sec + UnitsPerSecond \div 20]

DrumTracks(score) == SelectSeq(score.instruments, LAMBDA inst : inst.is_drum)

DrumNotes(score) ==
    IF DrumTracks(score) = <<>> THEN <<>> ELSE DrumTracks(score)[1].notes

\* C9 (Unmappable drum classes): build_pretty_midi does not raise on a
\* DrumEvent whose class the mapping does not hold or maps to no note; the
\* drum notes are, one for one, the mappable events with the primary note of
\* their class, in non-decreasing onset order.
C9_DrumNotes ==
    Returns("build_pretty_midi") =>
        /\ ~fn.out.raised
        /\ Len(DrumTracks(fn.out)) <= 1
        /\ \A x \in SeqRange(DrumNotes(fn.out))
                    \cup {NoteOfDrumEvent(fn.drum_mapping, fn.drum_events[k]) :
                              k \in {k \in 1..Len(fn.drum_events) :
                                        Mappable(fn.drum_mapping, fn.drum_events[k])}} :
               Cardinality({j \in 1..Len(DrumNotes(fn.out)) : DrumNotes(fn.out)[j] = x})
               = Cardinality({k \in 1..Len(fn.drum_events) :
                                 /\ Mappable(fn.drum_mapping, fn.drum_events[k])
                                 /\ NoteOfDrumEvent(fn.drum_mapping, fn.drum_events[k]) = x})
        /\ \A j \in 1..(Len(DrumNotes(fn.out)) - 1) :
               DrumNotes(fn.out)[j].start <= DrumNotes(fn.out)[j + 1].start

\* A late hat, an early snare whose class has no note, and a class the
\* mapping does not hold went in, and the hat's note came out
C9_Witness ==
    /\ Returns("build_pretty_midi")
    /\ Len(fn.drum_events) = 3
    /\ fn.drum_events[1].drum_class = "HH_CLOSED" /\ fn.drum_events[1].time_sec > 0
    /\ fn.drum_events[2].drum_class = "SNARE" /\ fn.drum_events[2].time_sec = 0
    /\ fn.drum_events[3].drum_class = "COWBELL"
    /\ fn.drum_mapping.class_to_notes["SNARE"] = <<>>
    /\ Len(DrumNotes(fn.out)) = 1
    /\ DrumNotes(fn.out)[1].pitch = 42

IsDegreeLetters(letters) ==
    \E d \in 0..6 : StrUpper(letters) = DegreeLetters[d + 1]

DamagedBars(progression) ==
    {k \in 1..Len(progression) : progression[k] = <<"Z">>}

\* C10 (Roman numerals): _roman_to_degree_and_quality maps the letters I..VII
\* in either case to 0..6, gives min for lowercase and maj for uppercase
\* letters and dim with the degree sign (V -> (4, maj), vi -> (5, min),
\* ii° -> (1, dim)), raises for a letter part that is no degree, and the
\* generators let that error out: a track call raises exactly when it
\* resolves a damaged numeral.
C10_RomanNumerals ==
    /\ Returns("roman_to_degree_and_quality") =>
           /\ \A d \in 0..6 :
                  StrUpper(fn.letters) = DegreeLetters[d + 1] =>
                      fn.out.ok /\ fn.out.degree = d
           /\ (IsDegreeLetters(fn.letters) /\ fn.mark = <<>>) =>
                  /\ fn.letters = StrLower(fn.letters) => fn.out.quality = "min"
                  /\ fn.letters = StrUpper(fn.letters) => fn.out.quality = "maj"
           /\ (IsDegreeLetters(fn.letters) /\ fn.mark = <<"°">>) =>
                  fn.out.quality = "dim"
           /\ fn.token = <<"V">> =>
                  fn.out = [ok |-> TRUE, degree |-> 4, quality |-> "maj"]
           /\ fn.token = <<"v", "i">> =>
                  fn.out = [ok |-> TRUE, degree |-> 5, quality |-> "min"]
           /\ fn.token = <<"i", "i", "°">> =>
                  fn.out = [ok |-> TRUE, degree |-> 1, quality |-> "dim"]
           /\ ~IsDegreeLetters(fn.letters) => ~fn.out.ok
    /\ (Returns("generate_chord_track") \/ Returns("generate_bass_track")) =>
           (fn.out.raised <=> DamagedBars(fn.progression) # {})
    /\ Returns("generate_pad_or_lead_tracks") =>
           /\ fn.out.raised => DamagedBars(fn.progression) # {}
           /\ ( /\ DamagedBars(fn.progression) # {}
                /\ \E i \in 1..Len(fn.instruments) :
                       is_pad_instrument(fn.instruments[i]) )
              => fn.out.raised
           \* a lead resolves the numeral of the bars it plays in
           /\ ( /\ DamagedBars(fn.progression) = 1..Len(fn.progression)
                /\ \E i \in 1..Len(fn.instruments) :
                       /\ is_lead_instrument(fn.instruments[i])
                       /\ generate_single_lead_track(
                              choose_chord_progression(song), song,
                              fn.instruments[i],
                              RngSeed(PadLeadSeed(song, fn.instruments[i]))).events
                          # <<>> )
              => fn.out.raised

\* The unknown numeral Z was resolved and raised
C10_Witness ==
    /\ Returns("roman_to_degree_and_quality")
    /\ fn.token = <<"Z">>
    /\ ~fn.out.ok

----------------------------------------------------------------------------
(* Further properties of the single calls and of the flow *)

DiminishedMarks == {<<"°">>, <<"o">>, <<"d", "i", "m">>}

\* C11 (Diminished override): for every degree numeral I..VII in either case,
\* the numeral followed by the degree sign, by a literal o, or by the suffix
\* dim resolves to quality dim with the degree index of the numeral.
C11_DiminishedOverride ==
    ( /\ Returns("roman_to_degree_and_quality")
      /\ IsDegreeLetters(fn.letters)
      /\ fn.letters \in {StrLower(fn.letters), StrUpper(fn.letters)}
      /\ fn.mark \in DiminishedMarks )
    => /\ fn.out.ok
       /\ fn.out.quality = "dim"
       /\ fn.out.degree = DegreeMapping[StrUpper(fn.letters)]

\* The sets choose_chord_progression draws the base progression from
FunkProgressions ==
    { << <<"I">>, <<"I", "V">>, <<"I">>, <<"V">> >>,
      << <<"I">>, <<"i", "i">>, <<"I", "V">>, <<"V">> >> }

MinorProgressions ==
    { << <<"i">>, <<"V", "I">>, <<"I", "I", "I">>, <<"V", "I", "I">> >>,
      << <<"i">>, <<"i", "v">>, <<"V", "I", "I">>, <<"I", "I", "I">> >> }

DefaultProgressions ==
    { << <<"I">>, <<"V">>, <<"v", "i">>, <<"I", "V">> >>,
      << <<"I">>, <<"v", "i">>, <<"I", "V">>, <<"V">> >>,
      << <<"I">>, <<"I", "V">>, <<"V">>, <<"I", "V">> >> }

\* C12 (Chord progression length): choose_chord_progression returns exactly
\* number_of_bars numerals, element i being base[i mod len(base)] of a base
\* progression from the funk set when the style contains "funk", else from the
\* minor set when the key is minor, else from the pop/major default set.
C12_ProgressionLength ==
    Returns("choose_chord_progression") =>
        /\ Len(fn.out) = fn.number_of_bars
        /\ \E base \in ( IF fn.style \in {"funk", "funk_pop"} THEN FunkProgressions
                         ELSE IF fn.key = "A minor" THEN MinorProgressions
                         ELSE DefaultProgressions ) :
               \A i \in 1..Len(fn.out) :
                   fn.out[i] = base[((i - 1) % Len(base)) + 1]

\* A progression longer than its base came back for a style that only
\* contains the word funk
C12_Witness ==
    /\ Returns("choose_chord_progression")
    /\ fn.style = "funk_pop"
    /\ fn.number_of_bars = 6
    /\ Len(fn.out) = 6

\* The events of bar bar_index (from 0) among the returned drum events
BarEvents(bar_index) ==
    LET In(lo, hi) ==
            SelectSeq(fn.out.events, LAMBDA e : lo <= e.time_sec /\ e.time_sec < hi)
        Bar(seconds_per_bar) ==
            In(bar_index * seconds_per_bar, (bar_index + 1) * seconds_per_bar)
    IN  Bar(compute_timing(song).seconds_per_bar)

\* The events of a library template in bar bar_index with the steps
\* start .. start + len - 1 (from 0) silenced in every voice
TemplateEvents(template, start, len, bar_index) ==
    LET At(seconds_per_bar) ==
            arrays_to_events(
                SeqOf([v \in 1..Len(template) |->
                    <<template[v][1],
                      SeqOf([i \in 1..STEP_RESOLUTION |->
                          /\ i <= Len(template[v][2])
                          /\ LowerChar(template[v][2][i]) = "x"
                          /\ ~(start < i /\ i <= start + len)])>>]),
                bar_index * seconds_per_bar, seconds_per_bar)
    IN  At(compute_timing(song).seconds_per_bar)

\* bar_events is a template of the library with one window silenced
IsPausedTemplate(bar_events, library, bar_index) ==
    \E i \in 1..Len(library) :
        \E len \in {STEP_RESOLUTION \div 16, STEP_RESOLUTION \div 8,
                    STEP_RESOLUTION \div 4, STEP_RESOLUTION \div 2} :
            \E start \in 0..(STEP_RESOLUTION - len) :
                bar_events = TemplateEvents(library[i][2], start, len, bar_index)

\* bar_events is no template of the library as it stands
IsNoTemplate(bar_events, library, bar_index) ==
    \A i \in 1..Len(library) :
        bar_events # TemplateEvents(library[i][2], 0, 0, bar_index)

PauseOnly == fn.self.complexity = 0 /\ fn.self.pause_probability = 10

\* C13 (Pause independent of complexity): with complexity 0.0 and
\* pause_probability 1.0 every bar of generate_drum_track is a template of the
\* style's library with exactly one window [start, start + len) silenced in
\* all voices, len being 1, 2, 4 or 8 of the 16 steps and
\* 0 <= start <= 16 - len; nothing else differs from the template.
C13_PauseOnly ==
    (Returns("generate_drum_track") /\ PauseOnly) =>
        /\ Len(fn.out.events) =
               SumSeq(SeqOf([b \in 1..song.number_of_bars |-> Len(BarEvents(b - 1))]))
        /\ \A b \in 0..(song.number_of_bars - 1) :
               IsPausedTemplate(BarEvents(b), select_pattern_library(song.style), b)

\* A bar came back that is no whole template: its pause silenced hits
C13_Witness ==
    /\ Returns("generate_drum_track") /\ PauseOnly
    /\ \E b \in 0..(song.number_of_bars - 1) :
           IsNoTemplate(BarEvents(b), select_pattern_library(song.style), b)

\* A ghost note: a snare event at the velocity _add_ghostnotes_for_bar gives
IsGhostNote(e) == e.drum_class = "SNARE" /\ e.velocity \in {45, 50}

\* C14 (Ghost-note gate): generate_drum_track emits ghost notes only with
\* ghostnote_probability > 0 and complexity > 0.2; with complexity 0.1 and
\* ghostnote_probability 0.9 no ghost note is emitted in any bar of an 8-bar
\* song, whatever the draws.
C14_GhostGate ==
    Returns("generate_drum_track") =>
        ( (\E k \in 1..Len(fn.out.events) : IsGhostNote(fn.out.events[k]))
          => (fn.self.ghostnote_probability > 0 /\ fn.self.complexity > 2) )

\* An 8-bar song came back from a generator of complexity 0.1 and ghost-note
\* probability 0.9 with snare hits and no ghost note
C14_Witness ==
    /\ Returns("generate_drum_track")
    /\ fn.self.complexity = 1 /\ fn.self.ghostnote_probability = 9
    /\ song.number_of_bars = 8
    /\ \E k \in 1..Len(fn.out.events) : fn.out.events[k].drum_class = "SNARE"
    /\ \A k \in 1..Len(fn.out.events) : ~IsGhostNote(fn.out.events[k])

\* C15 (Minimal pop song drum vocabulary): for a pop-straight song in 4/4 with
\* 4 bars every DrumEvent of generate_drum_track has its drum_class in
\* {KICK, SNARE, HH_CLOSED}: no tom and no crash, for any pattern the
\* selection can choose.
C15_MinimalPopVocabulary ==
    ( /\ Returns("generate_drum_track")
      /\ song.style = "pop-straight"
      /\ song.time_signature = <<4, 4>>
      /\ song.number_of_bars = 4 )
    => \A k \in 1..Len(fn.out.events) :
           fn.out.events[k].drum_class \in {"KICK", "SNARE", "HH_CLOSED"}

\* The notes of the returned track that start in bar bar_index (from 0)
NotesStartingInBar(bar_index) ==
    LET In(lo, hi) ==
            SelectSeq(fn.out.events, LAMBDA e : lo <= e.start_time /\ e.start_time < hi)
        Bar(dur) == In(bar_index * dur.bar_duration, (bar_index + 1) * dur.bar_duration)
    IN  Bar(bar_and_qnote_duration(song.tempo_bpm, song.time_signature[1],
                                   song.time_signature[2]))

\* C16 (Bass density): generate_bass_track emits at least one note in every
\* bar, for every bass instrument and every pattern the per-bar choice can
\* select (every pattern of the tables plays a note), so the track has at
\* least number_of_bars notes.
C16_BassDensity ==
    /\ (Returns("generate_bass_track") /\ ~fn.out.raised) =>
           /\ Len(fn.out.events) >= Len(fn.progression)
           /\ \A b \in 0..(Len(fn.progression) - 1) : NotesStartingInBar(b) # <<>>
    /\ \A name \in DOMAIN BASS_PATTERNS_BY_INSTRUMENT :
           \A p \in 1..Len(BASS_PATTERNS_BY_INSTRUMENT[name]) :
               \E k \in 1..Len(BASS_PATTERNS_BY_INSTRUMENT[name][p]) :
                   BASS_PATTERNS_BY_INSTRUMENT[name][p][k][3] # "rest"

\* A bass track of two bars came back for a song in 3/4
C16_Witness ==
    /\ Returns("generate_bass_track") /\ ~fn.out.raised
    /\ Len(fn.progression) = 2
    /\ song.time_signature = <<3, 4>>
    /\ NotesStartingInBar(1) # <<>>

\* C17 (Pattern library immutability): after any sequence of
\* generate_drum_track bars and generate_fill calls the style's pattern library
\* is unchanged; the mutations and the pause never write into the arrays they
\* were given (every array handed to _mutate_bar_arrays still holds what it
\* held, and the arrays it returns are other arrays), so a template chosen
\* again in a later bar is converted to the same arrays.
C17_LibraryImmutable ==
    fn.op = "store" =>
        /\ fn.library = select_pattern_library(song.style)
        /\ \A k \in 1..Len(fn.given) : fn.heap[fn.given[k][1]] = fn.given[k][2]
        /\ fn.at = "idle" =>
               \A v \in 1..Len(fn.mutated) :
                   \A k \in 1..Len(fn.given) : fn.mutated[v][2] # fn.given[k][1]
        /\ fn.at = "converted" =>
               \A v \in 1..Len(fn.arrays) :
                   fn.heap[fn.arrays[v][2]] =
                       pattern_str_to_array(fn.library[fn.template][2][v][2],
                                            STEP_RESOLUTION)

\* The second bar's mutation returned arrays that differ from the template's,
\* after a fill
C17_Witness ==
    /\ fn.op = "store" /\ fn.at = "idle" /\ fn.bars = 2 /\ fn.fills = 1
    /\ \E v \in 1..Len(fn.mutated) :
           v <= Len(fn.library[fn.template][2])
           /\ fn.heap[fn.mutated[v][2]] #
                  pattern_str_to_array(fn.library[fn.template][2][v][2], STEP_RESOLUTION)

\* C18: a harmony generation call completes without raising whatever scale
\* the configuration stores for the song's key, the empty one included
C18_DegenerateGuards ==
    (fn.op \in {"generate_chord_track", "generate_bass_track",
                "generate_pad_or_lead_tracks"}
     /\ "scale_vocab" \in DOMAIN fn /\ fn.called)
        => ~fn.out.raised

\* The song of the two examples: bars in this signature at this tempo
IsTimingExample(bars, ts, tempo) ==
    /\ song.number_of_bars = bars
    /\ song.time_signature = ts
    /\ song.tempo_bpm = tempo

\* C19: get_duration_seconds is number_of_bars x numerator x (4/denominator)
\* x (60/tempo), 32 s for 16 bars of 4/4 at 120 bpm and 16 s for 8 bars of 3/4
\* at 90 bpm; compute_bar_positions returns number_of_bars start times, the
\* i-th being i x seconds_per_bar, and the last one plus a bar is the duration
C19_TimingModel ==
    /\ (fn.op = "get_duration_seconds" /\ fn.called) =>
          /\ fn.out * song.time_signature[2] * song.tempo_bpm
                = song.number_of_bars * song.time_signature[1] * 4 * 60
                  * UnitsPerSecond
          /\ IsTimingExample(16, <<4, 4>>, 120) => fn.out = 32 * UnitsPerSecond
          /\ IsTimingExample(8, <<3, 4>>, 90) => fn.out = 16 * UnitsPerSecond
    /\ (fn.op = "compute_bar_positions" /\ fn.called) =>
          /\ Len(fn.out) = song.number_of_bars
          /\ \A i \in 0..(song.number_of_bars - 1) :
                 fn.out[i + 1] = i * compute_timing(song).seconds_per_bar
          /\ song.number_of_bars >= 1 =>
                 fn.out[song.number_of_bars] + compute_timing(song).seconds_per_bar
                     = get_duration_seconds(song)

\* The positions of the 8 bars of 3/4 at 90 bpm have been computed
C19_Witness ==
    /\ fn.op = "compute_bar_positions" /\ fn.called
    /\ IsTimingExample(8, <<3, 4>>, 90)
    /\ Len(fn.out) = 8
    /\ fn.out[8] = 14 * UnitsPerSecond

\* C20: get_primary_note_for_class(c) returns the first note listed for c and
\* raises KeyError when c is unknown or has no note; in the dataset builder's
\* mapping the primary note of every core class maps back to the class; and
\* is_supported_note(n) holds exactly when map_note_to_class(n) is not None
C20_DrumMappingRoundTrip ==
    /\ (fn.op = "get_primary_note_for_class" /\ fn.called) =>
          LET known == fn.drum_class \in DOMAIN fn.self.class_to_notes
          IN  IF known /\ Len(fn.self.class_to_notes[fn.drum_class]) > 0
              THEN fn.out.ok
                   /\ fn.out.note = Head(fn.self.class_to_notes[fn.drum_class])
              ELSE ~fn.out.ok
    /\ (fn.op = "map_note_to_class" /\ fn.called /\ "primary_of" \in DOMAIN fn
        /\ fn.self = create_drum_mapping
        /\ fn.primary_of \in SeqRange(fn.self.core_classes)) =>
          ~fn.out.is_none /\ fn.out.drum_class = fn.primary_of
    /\ (fn.op = "is_supported_note" /\ fn.called) =>
          (fn.out <=> ~map_note_to_class(fn.self, fn.note).is_none)

\* The primary note of HH_CLOSED, which has three notes, has been mapped back
C20_Witness ==
    /\ fn.op = "map_note_to_class" /\ fn.called /\ "primary_of" \in DOMAIN fn
    /\ fn.self = create_drum_mapping
    /\ fn.primary_of = "HH_CLOSED"
    /\ fn.note = 42
    /\ fn.out = [is_none |-> FALSE, drum_class |-> "HH_CLOSED"]

----------------------------------------------------------------------------
(* Claims C21..C30 *)

\* == of two Python numbers
NumEq(a, b) == a.v = b.v

SameInstrument(a, b) ==
    /\ a.name = b.name /\ a.role = b.role
    /\ NumEq(a.gm_program, b.gm_program) /\ NumEq(a.channel, b.channel)
    /\ NumEq(a.volume, b.volume) /\ NumEq(a.pan, b.pan)

SameBand(a, b) ==
    /\ NumEq(a.drum_channel, b.drum_channel)
    /\ a.drum_mapping = b.drum_mapping
    /\ Len(a.instruments) = Len(b.instruments)
    /\ \A i \in 1..Len(a.instruments) :
           SameInstrument(a.instruments[i], b.instruments[i])

SameSong(a, b) ==
    /\ a.song_identifier = b.song_identifier
    /\ NumEq(a.tempo_bpm, b.tempo_bpm)
    /\ NumEq(a.time_signature[1], b.time_signature[1])
    /\ NumEq(a.time_signature[2], b.time_signature[2])
    /\ NumEq(a.number_of_bars, b.number_of_bars)
    /\ a.key = b.key /\ a.style = b.style
    /\ NumEq(a.random_seed, b.random_seed)
    /\ SameBand(a.band_configuration, b.band_configuration)

\* C21: SongSpecification.from_dict(s.to_dict()) has the identifier, tempo,
\* time signature, bar count, key, style and seed of s, and a band
\* configuration with the same drum channel, drum mapping tables and
\* instruments in the same order
C21_DictRoundTrip ==
    (fn.op = "from_dict" /\ fn.called) => SameSong(fn.out, fn.original)

\* A song with two instruments, one of them with a fractional volume, has
\* been rebuilt from its dictionary
C21_Witness ==
    /\ fn.op = "from_dict" /\ fn.called
    /\ Len(fn.out.band_configuration.instruments) = 2
    /\ fn.out.band_configuration.instruments[1].volume = PyFloat(80)
    /\ fn.out.band_configuration.instruments[2].volume = PyFloat(100)
    /\ fn.original.band_configuration.instruments[2].volume = PyInt(1)

\* The statements of _mutate_bar_arrays end where the function does
MutateStepsAgree ==
    (fn.op = "mutate_bar_arrays" /\ fn.at = "done") =>
        [arrays |-> fn.mutated, rnd |-> fn.rnd, np |-> fn.np]
            = mutate_bar_arrays(fn.arrays, fn.complexity, fn.pause_probability,
                                fn.rnd0, fn.np0)

ActiveSteps(a) == {i \in 1..Len(a) : a[i]}

\* C22: a voice shifted by s in -2..2, s # 0, has exactly the active steps
\* i + s with i active before and i + s inside the bar; steps pushed past an
\* end are dropped, and the number of hits does not grow
C22_ShiftDrops ==
    (fn.op = "mutate_bar_arrays" /\ fn.at = "toggle" /\ fn.shift # 0) =>
        /\ fn.shift \in -2..2
        /\ ActiveSteps(fn.a)
              = {i + fn.shift : i \in ActiveSteps(fn.before)} \cap (1..Len(fn.before))
        /\ Cardinality(ActiveSteps(fn.a)) <= Cardinality(ActiveSteps(fn.before))

\* A shift by two steps to the right has pushed a hit out of the bar
C22_Witness ==
    /\ fn.op = "mutate_bar_arrays" /\ fn.at = "toggle" /\ fn.shift = 2
    /\ fn.before[Len(fn.before) - 1]
    /\ ~fn.a[1] /\ ~fn.a[2]
    /\ Cardinality(ActiveSteps(fn.a)) < Cardinality(ActiveSteps(fn.before))

\* ceil(steps x 0.1 x (0.5 + complexity)), complexity in tenths
CeilToggles(steps, complexity) == (steps * (5 + complexity) + 99) \div 100

\* C23: when the toggle mutation fires for a voice, the number of positions
\* drawn and flipped is ceil(steps x 0.1 x (0.5 + complexity))
C23_ToggleCount ==
    (fn.op = "mutate_bar_arrays" /\ fn.at = "thin" /\ fn.n_toggles > 0) =>
        fn.n_toggles = CeilToggles(Len(fn.before), fn.complexity)

\* fill ratio > 0.7
IsDense(a) == Cardinality(ActiveSteps(a)) * 10 > 7 * Len(a)

\* C24: for complexity > 0 a closed hi-hat array with a fill ratio above 0.7
\* (after shift and toggle) is thinned by keeping the even steps, the odd
\* steps or the steps of the syncopated mask, which only removes hits; in
\* every bar _mutate_bar_arrays returns the HH_CLOSED fill ratio is at most 0.7
C24_ThinningBound ==
    /\ (fn.op = "mutate_bar_arrays" /\ fn.at = "open"
        /\ fn.arrays[fn.v][1] = "HH_CLOSED" /\ IsDense(fn.before)) =>
          /\ fn.mode \in {"eighths", "offbeat", "broken"}
          /\ ActiveSteps(fn.a) \subseteq ActiveSteps(fn.before)
          /\ ActiveSteps(fn.a)
               = {i \in ActiveSteps(fn.before) :
                     CASE fn.mode = "eighths" -> (i - 1) % 2 = 0
                       [] fn.mode = "offbeat" -> (i - 1) % 2 = 1
                       [] OTHER -> (i - 1) % 8 \in {0, 2, 5}}
    /\ (fn.op = "mutate_bar_arrays" /\ fn.at = "done" /\ fn.complexity > 0) =>
          \A v \in 1..Len(fn.mutated) :
              fn.mutated[v][1] = "HH_CLOSED" => ~IsDense(fn.mutated[v][2])

\* A closed hat on all sixteen steps has been thinned with the syncopated mask
C24_Witness ==
    /\ fn.op = "mutate_bar_arrays" /\ fn.at = "open"
    /\ fn.arrays[fn.v][1] = "HH_CLOSED"
    /\ Cardinality(ActiveSteps(fn.before)) = 16
    /\ fn.mode = "broken"
    /\ Cardinality(ActiveSteps(fn.a)) = 6

\* The active steps of the voice of this class, none when the bar has no
\* such voice
StepsOfClass(arrays, drum_class) == ActiveSteps(ArraysGet(arrays, drum_class))

\* C25: closed hats are opened only when complexity > 0.5; the opened
\* positions are a non-empty subset of the active closed-hat steps, each is
\* cleared in HH_CLOSED and set in HH_OPEN at the same step, the open-hat hits
\* the bar already has are kept, and before the pause the closed hits left
\* plus the opened ones are the closed hits there were
C25_HatOpening ==
    /\ (fn.op = "mutate_bar_arrays" /\ fn.at \in {"next", "merge"}
        /\ fn.a_open # <<>>) =>
          /\ fn.complexity > 5
          /\ fn.arrays[fn.v][1] = "HH_CLOSED"
          /\ ActiveSteps(fn.a_open) # {}
          /\ ActiveSteps(fn.a_open) \subseteq ActiveSteps(fn.before)
          /\ ActiveSteps(fn.a) = ActiveSteps(fn.before) \ ActiveSteps(fn.a_open)
          /\ Cardinality(ActiveSteps(fn.a)) + Cardinality(ActiveSteps(fn.a_open))
                = Cardinality(ActiveSteps(fn.before))
    /\ (fn.op = "mutate_bar_arrays" /\ fn.at = "pause" /\ fn.complexity > 0) =>
          IF fn.hh_open_merge = <<>> THEN fn.mutated = fn.unmerged
          ELSE /\ StepsOfClass(fn.mutated, "HH_OPEN")
                    = StepsOfClass(fn.unmerged, "HH_OPEN")
                      \cup ActiveSteps(fn.hh_open_merge)
               /\ StepsOfClass(fn.mutated, "HH_CLOSED")
                    \cap ActiveSteps(fn.hh_open_merge) = {}
               /\ StepsOfClass(fn.mutated, "HH_CLOSED")
                    = StepsOfClass(fn.unmerged, "HH_CLOSED")

\* Closed hats have been opened in a bar that already had open-hat hits on
\* other steps
C25_Witness ==
    /\ fn.op = "mutate_bar_arrays" /\ fn.at = "pause"
    /\ fn.hh_open_merge # <<>>
    /\ StepsOfClass(fn.unmerged, "HH_OPEN") \ ActiveSteps(fn.hh_open_merge) # {}
    /\ ActiveSteps(fn.hh_open_merge) \ StepsOfClass(fn.unmerged, "HH_OPEN") # {}
    /\ StepsOfClass(fn.mutated, "HH_OPEN")
         = StepsOfClass(fn.unmerged, "HH_OPEN") \cup ActiveSteps(fn.hh_open_merge)

\* C26: the pitch of an approach_next bass event lies at or below the next
\* bar's root when the line moves up (next root >= current root) and at or
\* above it when the line moves down, for every pair of degrees, every scale
\* of the vocabulary, the diatonic and the chromatic variant
C26_ApproachDirection ==
    (fn.op = "render_bass_pattern_template_for_bar" /\ fn.called) =>
        LET scale == get_scale_for_key(fn.key)
            root_pitch == get_bass_root_pitch(fn.degree_index, scale, 36)
            next_root_pitch == get_bass_root_pitch(fn.next_degree_index, scale, 36)
        IN  \A k \in 1..Len(fn.pattern) :
                fn.pattern[k][3] = "approach_next" =>
                    IF next_root_pitch >= root_pitch
                    THEN fn.out.events[k].pitch <= next_root_pitch
                    ELSE fn.out.events[k].pitch >= next_root_pitch

IsTom(drum_class) == drum_class \in {"TOM_LOW", "TOM_MID", "TOM_HIGH"}

\* C27: generate_fill(song, start_bar, n) returns tom events (TOM_LOW, TOM_MID,
\* TOM_HIGH) with onsets inside bars start_bar .. start_bar + n - 1, followed by
\* exactly one CRASH at exactly (start_bar + n) x seconds_per_bar, the last
\* element of the list; generate_drum_track runs no generate_fill
C27_FillShape ==
    /\ (fn.op = "generate_fill" /\ fn.called) =>
           LET ev == fn.out.events
               seconds_per_bar == compute_timing(song).seconds_per_bar
               fill_end == (fn.start_bar + fn.number_of_bars) * seconds_per_bar
           IN  /\ Len(ev) >= 1
               /\ ev[Len(ev)].drum_class = "CRASH"
               /\ ev[Len(ev)].time_sec = fill_end
               /\ \A i \in 1..(Len(ev) - 1) :
                      /\ IsTom(ev[i].drum_class)
                      /\ ev[i].time_sec >= fn.start_bar * seconds_per_bar
                      /\ ev[i].time_sec < fill_end
               /\ fn.fills = 1
    /\ (fn.op = "generate_drum_track" /\ fn.called) => fn.fills = 0

C27_Witness ==
    /\ fn.op = "generate_fill" /\ fn.called
    /\ fn.number_of_bars = 2 /\ fn.start_bar = 1 /\ fn.self.complexity = 4
    /\ Len(fn.out.events) > 8
    /\ \E i \in 1..(Len(fn.out.events) - 1) :
           fn.out.events[i].time_sec >= 2 * compute_timing(song).seconds_per_bar

\* The statements of the bar taken one by one give the events of
\* generate_drum_track on the one-bar song
PauseStepsAgree ==
    (fn.op = "drum_bar" /\ fn.at = "done") =>
        \E seed \in 1..MaxPauseSeeds, np \in BootStates :
            LET g == generate_drum_track(song, fn.self, RngSeed(seed), np)
            IN  g.events = fn.bar_events \o fn.ghost_events /\ g.rnd = fn.rnd

\* The step of the bar an event of the first bar sounds on
StepOfEvent(e) == e.time_sec \div (compute_timing(song).seconds_per_bar \div STEP_RESOLUTION)

\* C28: when pause insertion fires in a bar of generate_drum_track, the bar has
\* no event on a step inside the pause window, ghost notes included
C28_PauseSilent ==
    (fn.op = "drum_bar" /\ fn.at = "done" /\ fn.window.fired) =>
        \A i \in 1..Len(fn.bar_events \o fn.ghost_events) :
            LET step == StepOfEvent((fn.bar_events \o fn.ghost_events)[i])
            IN  ~(fn.window.start <= step /\ step < fn.window.end)

\* C29: in the per-song flow every instrument of the band whose role is
\* chords, bass, pad or lead is passed to its generator: once the song's note
\* events are generated, each such instrument has its track
C29_EveryRoleGenerated ==
    \A r \in Runs :
        pc[r] = "built" =>
            \A b \in 1..Len(cur[r].band_configuration) :
                cur[r].band_configuration[b].role \in {"chords", "bass", "pad", "lead"} =>
                    \E t \in 1..Len(tracks[r]) :
                        tracks[r][t].instrument = cur[r].band_configuration[b]

\* What a generator returns for the progression it is recorded to have used
TrackFor(u) ==
    CASE u.generator = "generate_chord_track" ->
             ChordTrackFor(u.progression, song, u.instruments[1])
      [] u.generator = "generate_bass_track" ->
             BassTrackFor(u.progression, song, u.instruments[1])
      [] OTHER -> PadOrLeadTracksFor(u.progression, song, u.instruments)

\* C30: for a fixed SongSpecification, generate_chord_track, generate_bass_track
\* and generate_pad_or_lead_tracks use the same chord progression for every
\* instrument, in whatever order and however often they are called; the
\* progression is the one of seed, style, key and bar count alone
C30_OneProgression ==
    fn.op = "session" =>
        \A k \in 1..Len(fn.used) :
            /\ fn.used[k].out = TrackFor(fn.used[k])
            /\ fn.used[k].progression =
                   choose_chord_progression(
                       [song EXCEPT !.band_configuration = <<>>, !.tempo_bpm = 0,
                                    !.time_signature = <<0, 0>>])
            /\ \A l \in 1..Len(fn.used) :
                   fn.used[l].progression = fn.used[k].progression

C30_Witness ==
    /\ fn.op = "session" /\ Len(fn.used) = 3
    /\ song.number_of_bars = 2
    /\ fn.used[1].generator = "generate_pad_or_lead_tracks"
    /\ fn.used[2].generator = "generate_bass_track"
    /\ fn.used[3].generator = "generate_chord_track"
    /\ fn.used[2].instruments[1].channel # fn.used[3].instruments[1].channel
    /\ fn.used[2].out.events # <<>> /\ fn.used[3].out.events # <<>>

====
